---- MODULE Spec2Model ----
(***************************************************************************)
(* The call session bridge of voice-server: handleVoiceStream in           *)
(* src/handlers/voice-handler.js.  One session is one invocation of        *)
(* handleVoiceStream: a caller-leg socket (twilioWs), the AI-leg sockets   *)
(* the session creates (openaiWs), the closure variables the handlers      *)
(* share, and the handlers suspended at an await.                          *)
(*                                                                         *)
(* JavaScript runs one handler at a time until it returns or reaches an    *)
(* await on storage; every action below is one such run.  A handler        *)
(* suspended at an await is an entry of `pending`; it resumes in a later   *)
(* action, with the storage call fulfilled or rejected.                    *)
(***************************************************************************)
EXTENDS Integers, Sequences, FiniteSets

\* Bounds on the events the environment delivers to one session.
MaxStarts == 2
MaxEvents == 3
\* The budget of consecutive malformed caller-leg messages that C18 speaks of;
\* the code has no such number, any value below MaxEvents - 1 serves.
DecodeBudget == 1

VARIABLES
    tw,              \* twilioWs.readyState: "OPEN", "CLOSING", "CLOSED"
    streamSid,       \* let streamSid (0 is null)
    conversationId,  \* let conversationId (0 is null)
    openaiWs,        \* let openaiWs: index into conns (0 is null)
    conns,           \* every AI WebSocket the session has created
    pending,         \* the handlers suspended at an await
    convs,           \* conversation records in storage, by id
    msgs,            \* conversationMessage records in storage (the transcript log)
    calendar,        \* calendarEvent records in storage
    twSent,          \* frames sent on the caller leg
    crashed,         \* an exception escaped every handler (uncaught exception)
    nStart, nMedia, nStop, nAi,   \* events delivered so far
    agentNotFound,   \* history: some start event resolved to no active agent
    fcRecv,          \* history: the call_ids of the function-call events received
    nBad,            \* malformed messages delivered so far, on both legs
    badRun,          \* history: the malformed caller-leg messages since the last well-formed one
    trRecv,          \* history: the transcript-bearing AI events received, with their role
    now,             \* scheduling engine: the server clock, in minutes of local time
    tz,              \* scheduling engine: the server's zone, minutes behind UTC (getTimezoneOffset)
    call,            \* scheduling engine: the last call made to it
    returned,        \* scheduling engine: what that call returned
    nCalls,          \* scheduling engine: calls made so far
    clientWs,        \* realtime client: this.ws, an index into sockets (0 is null)
    sockets,         \* realtime client: every WebSocket connect() has created
    clientThrew,     \* realtime client: a call on the client threw
    clientCall,      \* realtime client: the last call made on it
    nClientCalls     \* realtime client: calls made so far

vars == <<tw, streamSid, conversationId, openaiWs, conns, pending, convs, msgs,
          calendar, twSent, crashed, nStart, nMedia, nStop, nAi, agentNotFound, fcRecv,
          nBad, badRun, trRecv, now, tz, call, returned, nCalls,
          clientWs, sockets, clientThrew, clientCall, nClientCalls>>

\* The variables of the scheduling engine's own specification (SchedSpec).
schedVars == <<now, tz, call, returned, nCalls>>
\* The variables of the realtime client's own specification (ClientSpec).
clientVars == <<clientWs, sockets, clientThrew, clientCall, nClientCalls>>
\* The variables of the bridge that the scheduling engine does not touch.
bridgeVars == <<tw, streamSid, conversationId, openaiWs, conns, pending, convs, msgs,
                twSent, crashed, nStart, nMedia, nStop, nAi, agentNotFound, fcRecv,
                nBad, badRun, trRecv>>

----------------------------------------------------------------------------
\* Values

\* The agents a called number can resolve to; NoAgent is findFirst's null.
NoAgent == [id |-> 0, greeting |-> FALSE]
Agents == {[id |-> 1, greeting |-> TRUE], [id |-> 2, greeting |-> FALSE]}

FunctionNames == {"check_availability", "book_appointment", "get_next_available_slot", "unknown_tool"}
KnownFunctions == {"check_availability", "book_appointment", "get_next_available_slot"}
\* The arguments string of a function call: "json" parses, "badjson" does not.
ArgKinds == {"json", "badjson"}

\* The scheduling engine before any call.
NoCall == [fn |-> "none"]
NoResult == [success |-> FALSE, date |-> 0, slotStarts |-> <<>>, availableSlots |-> <<>>]

\* Messages sent on an AI connection.
SessionUpdate ==
    [type |-> "session.update", item |-> "", id |-> 0, val |-> "",
     input_audio_format |-> "g711_ulaw", output_audio_format |-> "g711_ulaw"]
GreetingItem == [type |-> "conversation.item.create", item |-> "message", id |-> 0, val |-> "greeting"]
ResponseCreate == [type |-> "response.create", item |-> "", id |-> 0, val |-> ""]
\* Mutation of AudioAppend: every append carries the first payload again.
AudioAppendStale(payload) == [type |-> "input_audio_buffer.append", item |-> "", id |-> 1, val |-> ""]

AudioAppend(payload) == [type |-> "input_audio_buffer.append", item |-> "", id |-> payload, val |-> ""]
FunctionCallOutput(callId, result) ==
    [type |-> "conversation.item.create", item |-> "function_call_output", id |-> callId, val |-> result]

\* The results executeFunctionCall serialises into the output.
UnknownFunctionResult == "error: Unknown function"
FailureResult == "success: false"
SuccessResult == "success: true"

\* A suspended handler: what it awaits (kind), the ordinal of the event it
\* handles (ev) and the values it holds across the await.
Task(kind, ev, agent, conv, ws, role, fn) ==
    [kind |-> kind, ev |-> ev, agent |-> agent, conv |-> conv, ws |-> ws, role |-> role, fn |-> fn]

----------------------------------------------------------------------------
\* The ws library's socket operations, as the handlers use them.

\* ws.send(m): the message goes out only on an OPEN socket.
wsSend(cs, c, ms) ==
    IF cs[c].rs = "OPEN" THEN [cs EXCEPT ![c].sent = @ \o ms] ELSE cs

\* ws.send throws on a CONNECTING socket; on a closing or closed socket it
\* throws or does nothing, depending on the library version (thr).
wsSendThrows(cs, c, thr) ==
    \/ cs[c].rs = "CONNECTING"
    \/ cs[c].rs \in {"CLOSING", "CLOSED"} /\ thr

\* ws.close(): an OPEN socket starts the closing handshake, a CONNECTING one
\* aborts its handshake and never opens; otherwise nothing.
wsClose(cs, c) ==
    IF cs[c].rs = "OPEN" THEN [cs EXCEPT ![c].rs = "CLOSING"]
    ELSE IF cs[c].rs = "CONNECTING" THEN [cs EXCEPT ![c].rs = "CLOSED"]
    ELSE cs

\* if (openaiWs) { openaiWs.close(); }
CloseOpenAi(cs, ws) == IF ws # 0 THEN wsClose(cs, ws) ELSE cs

----------------------------------------------------------------------------
\* The realtime client before its first call: this.ws = null, no socket created.
NoClientCall == [op |-> "none", sent |-> FALSE]
ClientIdle ==
    /\ clientWs = 0
    /\ sockets = <<>>
    /\ clientThrew = FALSE
    /\ clientCall = NoClientCall
    /\ nClientCalls = 0

Init ==
    /\ tw = "OPEN"
    /\ streamSid = 0
    /\ conversationId = 0
    /\ openaiWs = 0
    /\ conns = <<>>
    /\ pending = {}
    /\ convs = <<>>
    /\ msgs = <<>>
    /\ calendar = <<>>
    /\ twSent = <<>>
    /\ crashed = FALSE
    /\ nStart = 0 /\ nMedia = 0 /\ nStop = 0 /\ nAi = 0
    /\ agentNotFound = FALSE
    /\ fcRecv = {}
    /\ nBad = 0
    /\ badRun = 0
    /\ trRecv = {}
    /\ now = 0 /\ tz = 0 /\ call = NoCall /\ returned = NoResult /\ nCalls = 0
    /\ ClientIdle

\* The caller leg delivers 'message' events until its close completes.
TwilioDelivers == ~crashed /\ tw \in {"OPEN", "CLOSING"}

\* The events delivered so far, on both legs.
Delivered == nStart + nMedia + nStop + nAi + nBad

\* case 'start': the identifiers are stored, then the handler awaits the agent lookup.
TwilioStart ==
    /\ TwilioDelivers
    /\ nStart < MaxStarts /\ Delivered < MaxEvents
    /\ nStart' = nStart + 1
    /\ streamSid' = nStart + 1
    /\ pending' = pending \cup {Task("start_lookup", nStart + 1, NoAgent, 0, 0, "", "")}
    /\ UNCHANGED <<tw, conversationId, openaiWs, conns, convs, msgs, calendar, twSent,
                   crashed, nMedia, nStop, nAi, agentNotFound, fcRecv>>
    /\ badRun' = 0
    /\ UNCHANGED <<nBad, trRecv>>
    /\ UNCHANGED <<schedVars, clientVars>>

\* findFirst resolves: with no agent the caller leg is closed and the handler
\* returns; with an agent the handler goes on to await conversation.create.
StartLookupDone(t, agent) ==
    /\ ~crashed
    /\ t \in pending
    /\ t.kind = "start_lookup"
    /\ IF agent = NoAgent
       THEN /\ tw' = IF tw = "OPEN" THEN "CLOSING" ELSE tw
            /\ pending' = pending \ {t}
            /\ agentNotFound' = TRUE
       ELSE /\ pending' = (pending \ {t}) \cup {Task("start_create", t.ev, agent, 0, 0, "", "")}
            /\ UNCHANGED <<tw, agentNotFound>>
    /\ UNCHANGED <<streamSid, conversationId, openaiWs, conns, convs, msgs, calendar, twSent,
                   crashed, nStart, nMedia, nStop, nAi, fcRecv>>
    /\ UNCHANGED <<nBad, badRun, trRecv>>
    /\ UNCHANGED <<schedVars, clientVars>>

\* A rejected storage call in the caller-leg message handler (findFirst,
\* conversation.create, conversation.update in case 'stop') is caught by the
\* handler's try/catch, which logs it: the rest of the handler is skipped.
TwilioHandlerFails(t) ==
    /\ ~crashed
    /\ t \in pending
    /\ t.kind \in {"start_lookup", "start_create", "stop_update"}
    /\ pending' = pending \ {t}
    /\ UNCHANGED <<tw, streamSid, conversationId, openaiWs, conns, convs, msgs, calendar,
                   twSent, crashed, nStart, nMedia, nStop, nAi, agentNotFound, fcRecv>>
    /\ UNCHANGED <<nBad, badRun, trRecv>>
    /\ UNCHANGED <<schedVars, clientVars>>

\* Mutation of StartCreateDone: the AI connection is begun while the
\* conversation identifier is still unset.
StartCreateDoneConnectsFirst(t) ==
    /\ ~crashed
    /\ t \in pending
    /\ t.kind = "start_create"
    /\ convs' = Append(convs, "active")
    /\ conversationId' = conversationId
    /\ conns' = Append(conns, [rs |-> "CONNECTING", sent |-> <<>>, agent |-> t.agent,
                               stopAt |-> "NONE"])
    /\ openaiWs' = Len(conns) + 1
    /\ pending' = pending \ {t}
    /\ UNCHANGED <<tw, streamSid, msgs, calendar, twSent, crashed, nStart, nMedia, nStop,
                   nAi, agentNotFound, fcRecv>>
    /\ UNCHANGED <<nBad, badRun, trRecv>>
    /\ UNCHANGED <<schedVars, clientVars>>

\* conversation.create resolves: conversationId is set and a new AI WebSocket
\* is created and assigned to openaiWs; its handlers close over this start's agent.
StartCreateDone(t) ==
    /\ ~crashed
    /\ t \in pending
    /\ t.kind = "start_create"
    /\ convs' = Append(convs, "active")
    /\ conversationId' = Len(convs) + 1
    /\ conns' = Append(conns, [rs |-> "CONNECTING", sent |-> <<>>, agent |-> t.agent,
                               stopAt |-> "NONE"])
    /\ openaiWs' = Len(conns) + 1
    /\ pending' = pending \ {t}
    /\ UNCHANGED <<tw, streamSid, msgs, calendar, twSent, crashed, nStart, nMedia, nStop,
                   nAi, agentNotFound, fcRecv>>
    /\ UNCHANGED <<nBad, badRun, trRecv>>
    /\ UNCHANGED <<schedVars, clientVars>>

\* Mutation of TwilioMedia: a frame for a connection that is not open is
\* queued on it and goes out with the connection's messages.
TwilioMediaQueues ==
    /\ TwilioDelivers
    /\ Delivered < MaxEvents
    /\ nMedia' = nMedia + 1
    /\ conns' = IF openaiWs # 0
                THEN [conns EXCEPT ![openaiWs].sent = @ \o <<AudioAppend(nMedia + 1)>>]
                ELSE conns
    /\ UNCHANGED <<tw, streamSid, conversationId, openaiWs, pending, convs, msgs, calendar,
                   twSent, crashed, nStart, nStop, nAi, agentNotFound, fcRecv>>
    /\ badRun' = 0
    /\ UNCHANGED <<nBad, trRecv>>
    /\ UNCHANGED <<schedVars, clientVars>>

\* case 'media': relayed only when openaiWs is set and OPEN.
TwilioMedia ==
    /\ TwilioDelivers
    /\ Delivered < MaxEvents
    /\ nMedia' = nMedia + 1
    /\ conns' = IF openaiWs # 0 /\ conns[openaiWs].rs = "OPEN"
                THEN wsSend(conns, openaiWs, <<AudioAppend(nMedia + 1)>>)
                ELSE conns
    /\ UNCHANGED <<tw, streamSid, conversationId, openaiWs, pending, convs, msgs, calendar,
                   twSent, crashed, nStart, nStop, nAi, agentNotFound, fcRecv>>
    /\ badRun' = 0
    /\ UNCHANGED <<nBad, trRecv>>
    /\ UNCHANGED <<schedVars, clientVars>>

\* History: the readyState each AI connection had when the first stop event came.
MarkStop(cs) ==
    [c \in 1..Len(cs) |-> IF cs[c].stopAt = "NONE" THEN [cs[c] EXCEPT !.stopAt = cs[c].rs] ELSE cs[c]]

\* case 'stop': with a conversation the handler first awaits conversation.update;
\* without one it closes the AI connection at once.
TwilioStop ==
    /\ TwilioDelivers
    /\ Delivered < MaxEvents
    /\ nStop' = nStop + 1
    /\ IF conversationId # 0
       THEN /\ pending' = pending \cup {Task("stop_update", nStop + 1, NoAgent, conversationId, 0, "", "")}
            /\ conns' = MarkStop(conns)
       ELSE /\ conns' = CloseOpenAi(MarkStop(conns), openaiWs)
            /\ UNCHANGED pending
    /\ UNCHANGED <<tw, streamSid, conversationId, openaiWs, convs, msgs, calendar, twSent,
                   crashed, nStart, nMedia, nAi, agentNotFound, fcRecv>>
    /\ badRun' = 0
    /\ UNCHANGED <<nBad, trRecv>>
    /\ UNCHANGED <<schedVars, clientVars>>

\* case 'stop' after the await: the AI connection openaiWs then refers to is closed.
StopUpdateDone(t) ==
    /\ ~crashed
    /\ t \in pending
    /\ t.kind = "stop_update"
    /\ convs' = [convs EXCEPT ![t.conv] = "completed"]
    /\ conns' = CloseOpenAi(conns, openaiWs)
    /\ pending' = pending \ {t}
    /\ UNCHANGED <<tw, streamSid, conversationId, openaiWs, msgs, calendar, twSent, crashed,
                   nStart, nMedia, nStop, nAi, agentNotFound, fcRecv>>
    /\ UNCHANGED <<nBad, badRun, trRecv>>
    /\ UNCHANGED <<schedVars, clientVars>>

\* twilioWs 'close': the caller leg is closed (by the caller, by an error, or the
\* close the bridge began completes).  Same shape as 'stop'.
TwilioClose ==
    /\ TwilioDelivers
    /\ tw' = "CLOSED"
    /\ IF conversationId # 0
       THEN /\ pending' = pending \cup {Task("close_update", 0, NoAgent, conversationId, 0, "", "")}
            /\ UNCHANGED conns
       ELSE /\ conns' = CloseOpenAi(conns, openaiWs)
            /\ UNCHANGED pending
    /\ UNCHANGED <<streamSid, conversationId, openaiWs, convs, msgs, calendar, twSent,
                   crashed, nStart, nMedia, nStop, nAi, agentNotFound, fcRecv>>
    /\ UNCHANGED <<nBad, badRun, trRecv>>
    /\ UNCHANGED <<schedVars, clientVars>>

\* twilioWs 'close' after the await: a rejected update is caught by .catch and
\* the handler goes on to close the AI connection either way.
CloseUpdateDone(t, ok) ==
    /\ ~crashed
    /\ t \in pending
    /\ t.kind = "close_update"
    /\ convs' = IF ok THEN [convs EXCEPT ![t.conv] = "completed"] ELSE convs
    /\ conns' = CloseOpenAi(conns, openaiWs)
    /\ pending' = pending \ {t}
    /\ UNCHANGED <<tw, streamSid, conversationId, openaiWs, msgs, calendar, twSent, crashed,
                   nStart, nMedia, nStop, nAi, agentNotFound, fcRecv>>
    /\ UNCHANGED <<nBad, badRun, trRecv>>
    /\ UNCHANGED <<schedVars, clientVars>>

----------------------------------------------------------------------------
\* The AI leg: the handlers registered on the WebSocket a start handler created.

\* What the 'open' handler sends: the configuration, then the greeting trigger.
\* Mutation of OpenMessages: the greeting is triggered whether or not the agent
\* has one.
OpenMessagesAlwaysGreets(agent) == <<SessionUpdate, GreetingItem, ResponseCreate>>

\* Mutation of OpenMessages: the configuration declares PCM for the input.
OpenMessagesPcmInput(agent) ==
    IF agent.greeting
    THEN <<[SessionUpdate EXCEPT !.input_audio_format = "pcm16"], GreetingItem, ResponseCreate>>
    ELSE <<[SessionUpdate EXCEPT !.input_audio_format = "pcm16"]>>

OpenMessages(agent) ==
    IF agent.greeting THEN <<SessionUpdate, GreetingItem, ResponseCreate>> ELSE <<SessionUpdate>>

\* openaiWs 'open' of connection c: the handler sends on the socket the variable
\* openaiWs refers to, outside any try/catch.
AiOpen(c, thr) ==
    /\ ~crashed
    /\ c \in 1..Len(conns)
    /\ conns[c].rs = "CONNECTING"
    /\ LET opened == [conns EXCEPT ![c].rs = "OPEN"]
       IN  IF wsSendThrows(opened, openaiWs, thr)
           THEN conns' = opened /\ crashed' = TRUE
           ELSE conns' = wsSend(opened, openaiWs, OpenMessages(conns[c].agent)) /\ crashed' = FALSE
    /\ UNCHANGED <<tw, streamSid, conversationId, openaiWs, pending, convs, msgs, calendar,
                   twSent, nStart, nMedia, nStop, nAi, agentNotFound, fcRecv>>
    /\ UNCHANGED <<nBad, badRun, trRecv>>
    /\ UNCHANGED <<schedVars, clientVars>>

\* openaiWs 'error' and 'close': the connection fails to open, is closed by the
\* AI service, errors, or finishes closing.  Both handlers only log.
AiClosed(c) ==
    /\ ~crashed
    /\ c \in 1..Len(conns)
    /\ conns[c].rs # "CLOSED"
    /\ conns' = [conns EXCEPT ![c].rs = "CLOSED"]
    /\ UNCHANGED <<tw, streamSid, conversationId, openaiWs, pending, convs, msgs, calendar,
                   twSent, crashed, nStart, nMedia, nStop, nAi, agentNotFound, fcRecv>>
    /\ UNCHANGED <<nBad, badRun, trRecv>>
    /\ UNCHANGED <<schedVars, clientVars>>

\* The socket emits 'message' while OPEN and while its close handshake runs.
AiDelivers(c) ==
    /\ ~crashed
    /\ c \in 1..Len(conns)
    /\ conns[c].rs \in {"OPEN", "CLOSING"}
    /\ Delivered < MaxEvents

\* response.audio.delta: relayed to the caller when streamSid is set and the
\* caller leg is OPEN.
\* Mutation of AiAudioDelta: audio is relayed only when no handler is suspended.
AiAudioDeltaWaits(c) ==
    /\ AiDelivers(c)
    /\ nAi' = nAi + 1
    /\ twSent' = IF streamSid # 0 /\ tw = "OPEN" /\ pending = {}
                 THEN Append(twSent, [streamSid |-> streamSid, payload |-> nAi + 1])
                 ELSE twSent
    /\ UNCHANGED <<tw, streamSid, conversationId, openaiWs, conns, pending, convs, msgs,
                   calendar, crashed, nStart, nMedia, nStop, agentNotFound, fcRecv>>
    /\ UNCHANGED <<nBad, badRun, trRecv>>
    /\ UNCHANGED <<schedVars, clientVars>>

AiAudioDelta(c) ==
    /\ AiDelivers(c)
    /\ nAi' = nAi + 1
    /\ twSent' = IF streamSid # 0 /\ tw = "OPEN"
                 THEN Append(twSent, [streamSid |-> streamSid, payload |-> nAi + 1])
                 ELSE twSent
    /\ UNCHANGED <<tw, streamSid, conversationId, openaiWs, conns, pending, convs, msgs,
                   calendar, crashed, nStart, nMedia, nStop, agentNotFound, fcRecv>>
    /\ UNCHANGED <<nBad, badRun, trRecv>>
    /\ UNCHANGED <<schedVars, clientVars>>

\* conversation.item.input_audio_transcription.completed (role "user") and
\* response.done (role "assistant", when a content item bears a transcript):
\* the handler awaits conversationMessage.create.
AiTranscript(c, role, hasTranscript) ==
    /\ AiDelivers(c)
    /\ nAi' = nAi + 1
    /\ pending' = IF role = "user" \/ hasTranscript
                  THEN pending \cup {Task("save", nAi + 1, NoAgent, conversationId, 0, role, "")}
                  ELSE pending
    /\ trRecv' = IF role = "user" \/ hasTranscript
                 THEN trRecv \cup {[ev |-> nAi + 1, role |-> role]}
                 ELSE trRecv
    /\ UNCHANGED <<tw, streamSid, conversationId, openaiWs, conns, convs, msgs, calendar,
                   twSent, crashed, nStart, nMedia, nStop, agentNotFound, fcRecv, nBad, badRun>>
    /\ UNCHANGED <<schedVars, clientVars>>

\* conversationMessage.create resolves or rejects; a rejection is caught and logged.
\* Mutation of SaveDone: a failed write ends the session by closing the AI leg.
SaveDoneFailureCloses(t, ok) ==
    /\ ~crashed
    /\ t \in pending
    /\ t.kind = "save"
    /\ msgs' = IF ok
               THEN Append(msgs, [conv |-> t.conv, role |-> t.role, text |-> t.ev])
               ELSE msgs
    /\ conns' = IF ok THEN conns ELSE CloseOpenAi(conns, openaiWs)
    /\ pending' = pending \ {t}
    /\ UNCHANGED <<tw, streamSid, conversationId, openaiWs, convs, calendar, twSent,
                   crashed, nStart, nMedia, nStop, nAi, agentNotFound, fcRecv>>
    /\ UNCHANGED <<nBad, badRun, trRecv>>
    /\ UNCHANGED <<schedVars, clientVars>>

\* Mutation of SaveDone: a successful write stores the turn twice.
SaveDoneTwice(t, ok) ==
    /\ ~crashed
    /\ t \in pending
    /\ t.kind = "save"
    /\ msgs' = IF ok
               THEN msgs \o << [conv |-> t.conv, role |-> t.role, text |-> t.ev],
                               [conv |-> t.conv, role |-> t.role, text |-> t.ev] >>
               ELSE msgs
    /\ pending' = pending \ {t}
    /\ UNCHANGED <<tw, streamSid, conversationId, openaiWs, conns, convs, calendar, twSent,
                   crashed, nStart, nMedia, nStop, nAi, agentNotFound, fcRecv>>
    /\ UNCHANGED <<nBad, badRun, trRecv>>
    /\ UNCHANGED <<schedVars, clientVars>>

SaveDone(t, ok) ==
    /\ ~crashed
    /\ t \in pending
    /\ t.kind = "save"
    /\ msgs' = IF ok
               THEN Append(msgs, [conv |-> t.conv, role |-> t.role, text |-> t.ev])
               ELSE msgs
    /\ pending' = pending \ {t}
    /\ UNCHANGED <<tw, streamSid, conversationId, openaiWs, conns, convs, calendar, twSent,
                   crashed, nStart, nMedia, nStop, nAi, agentNotFound, fcRecv>>
    /\ UNCHANGED <<nBad, badRun, trRecv>>
    /\ UNCHANGED <<schedVars, clientVars>>

\* A variant that sends the output without the response trigger.
SendResultNoTrigger(cs, ws, callId, result) ==
    wsSend(cs, ws, <<FunctionCallOutput(callId, result)>>)

\* executeFunctionCall's tail: the output, then the response trigger, on the
\* socket it was handed.  A throwing send is caught by the caller's try/catch.
SendResult(cs, ws, callId, result) ==
    wsSend(cs, ws, <<FunctionCallOutput(callId, result), ResponseCreate>>)

\* response.function_call_arguments.done.  JSON.parse of the arguments runs
\* before executeFunctionCall is called; an unknown name gives its result at
\* once, a known one awaits the scheduling operation.
AiFunctionCall(c, fn, args) ==
    /\ AiDelivers(c)
    /\ nAi' = nAi + 1
    /\ fcRecv' = fcRecv \cup {nAi + 1}
    /\ IF args = "badjson"
       THEN UNCHANGED <<conns, pending>>
       ELSE IF fn \notin KnownFunctions
       THEN /\ conns' = SendResult(conns, openaiWs, nAi + 1, UnknownFunctionResult)
            /\ UNCHANGED pending
       ELSE /\ pending' = pending \cup {Task("tool", nAi + 1, NoAgent, conversationId, openaiWs, "", fn)}
            /\ UNCHANGED conns
    /\ UNCHANGED <<tw, streamSid, conversationId, openaiWs, convs, msgs, calendar, twSent,
                   crashed, nStart, nMedia, nStop, agentNotFound>>
    /\ UNCHANGED <<nBad, badRun, trRecv>>
    /\ UNCHANGED <<schedVars, clientVars>>

\* A variant that reports every invocation as a success.
ExecResultAlwaysSuccess(ok) == SuccessResult

\* The result of a scheduling operation that returned (ok) or threw, on
\* arguments it cannot use or on a rejected storage call: executeFunctionCall's
\* catch turns the exception into a failure result.
ExecResult(ok) == IF ok THEN SuccessResult ELSE FailureResult

\* Mutation of ToolDone: an exception of the sends after the scheduling
\* operation is caught by nothing.
ToolDoneUncaught(t, ok) ==
    /\ ~crashed
    /\ t \in pending
    /\ t.kind = "tool"
    /\ calendar' = IF ok /\ t.fn = "book_appointment"
                   THEN Append(calendar, [conv |-> t.conv, status |-> "scheduled"])
                   ELSE calendar
    /\ \E thr \in BOOLEAN :
          IF wsSendThrows(conns, t.ws, thr)
          THEN conns' = conns /\ crashed' = TRUE
          ELSE conns' = SendResult(conns, t.ws, t.ev, ExecResult(ok)) /\ crashed' = FALSE
    /\ pending' = pending \ {t}
    /\ UNCHANGED <<tw, streamSid, conversationId, openaiWs, convs, msgs, twSent,
                   nStart, nMedia, nStop, nAi, agentNotFound, fcRecv>>
    /\ UNCHANGED <<nBad, badRun, trRecv>>
    /\ UNCHANGED <<schedVars, clientVars>>

\* Mutation of ToolDone: every scheduling operation that succeeds writes an entry.
ToolDoneAnyToolWrites(t, ok) ==
    /\ ~crashed
    /\ t \in pending
    /\ t.kind = "tool"
    /\ calendar' = IF ok
                   THEN Append(calendar, [conv |-> t.conv, status |-> "scheduled"])
                   ELSE calendar
    /\ conns' = SendResult(conns, t.ws, t.ev, ExecResult(ok))
    /\ pending' = pending \ {t}
    /\ UNCHANGED <<tw, streamSid, conversationId, openaiWs, convs, msgs, twSent, crashed,
                   nStart, nMedia, nStop, nAi, agentNotFound, fcRecv>>
    /\ UNCHANGED <<nBad, badRun, trRecv>>
    /\ UNCHANGED <<schedVars, clientVars>>

\* The storage call of a scheduling operation completes; bookAppointment's
\* calendarEvent.create adds the entry.
ToolDone(t, ok) ==
    /\ ~crashed
    /\ t \in pending
    /\ t.kind = "tool"
    /\ calendar' = IF ok /\ t.fn = "book_appointment"
                   THEN Append(calendar, [conv |-> t.conv, status |-> "scheduled"])
                   ELSE calendar
    /\ conns' = SendResult(conns, t.ws, t.ev, ExecResult(ok))
    /\ pending' = pending \ {t}
    /\ UNCHANGED <<tw, streamSid, conversationId, openaiWs, convs, msgs, twSent, crashed,
                   nStart, nMedia, nStop, nAi, agentNotFound, fcRecv>>
    /\ UNCHANGED <<nBad, badRun, trRecv>>
    /\ UNCHANGED <<schedVars, clientVars>>

\* A caller-leg message that fails to parse (or lacks the fields its case
\* reads): JSON.parse throws inside the handler's try, the catch logs it.
TwilioMalformed ==
    /\ TwilioDelivers
    /\ Delivered < MaxEvents
    /\ nBad' = nBad + 1
    /\ badRun' = badRun + 1
    /\ UNCHANGED <<tw, streamSid, conversationId, openaiWs, conns, pending, convs, msgs,
                   calendar, twSent, crashed, nStart, nMedia, nStop, nAi, agentNotFound,
                   fcRecv, trRecv>>
    /\ UNCHANGED <<schedVars, clientVars>>

\* Mutation of AiMalformed: the parse error is not caught.
AiMalformedUncaught(c) ==
    /\ AiDelivers(c)
    /\ nBad' = nBad + 1
    /\ crashed' = TRUE
    /\ UNCHANGED <<tw, streamSid, conversationId, openaiWs, conns, pending, convs, msgs,
                   calendar, twSent, nStart, nMedia, nStop, nAi, agentNotFound,
                   fcRecv, badRun, trRecv>>
    /\ UNCHANGED <<schedVars, clientVars>>

\* An AI-leg message that fails to parse: caught and logged by the openaiWs
\* 'message' handler's own try/catch.
AiMalformed(c) ==
    /\ AiDelivers(c)
    /\ nBad' = nBad + 1
    /\ UNCHANGED <<tw, streamSid, conversationId, openaiWs, conns, pending, convs, msgs,
                   calendar, twSent, crashed, nStart, nMedia, nStop, nAi, agentNotFound,
                   fcRecv, badRun, trRecv>>

    /\ UNCHANGED <<schedVars, clientVars>>
Next ==
    \/ TwilioStart
    \/ \E t \in pending, agent \in Agents \cup {NoAgent} : StartLookupDone(t, agent)
    \/ \E t \in pending : TwilioHandlerFails(t)
    \/ \E t \in pending : StartCreateDone(t)
    \/ TwilioMedia
    \/ TwilioStop
    \/ \E t \in pending : StopUpdateDone(t)
    \/ TwilioClose
    \/ \E t \in pending, ok \in BOOLEAN : CloseUpdateDone(t, ok)
    \/ \E c \in 1..Len(conns), thr \in BOOLEAN : AiOpen(c, thr)
    \/ \E c \in 1..Len(conns) : AiClosed(c)
    \/ \E c \in 1..Len(conns) : AiAudioDelta(c)
    \/ \E c \in 1..Len(conns), role \in {"user", "assistant"}, hasTranscript \in BOOLEAN :
          AiTranscript(c, role, hasTranscript)
    \/ \E t \in pending, ok \in BOOLEAN : SaveDone(t, ok)
    \/ \E c \in 1..Len(conns), fn \in FunctionNames, args \in ArgKinds : AiFunctionCall(c, fn, args)
    \/ \E t \in pending, ok \in BOOLEAN : ToolDone(t, ok)
    \/ TwilioMalformed
    \/ \E c \in 1..Len(conns) : AiMalformed(c)

Spec == Init /\ [][Next]_vars

----------------------------------------------------------------------------
\* The scheduling engine: parseNaturalDate, startOfDay, endOfDay,
\* generateAvailableSlots, checkAvailability.
\*
\* An instant (a JavaScript Date) is a whole number of minutes on the server's
\* local clock, counted from 00:00 of local day 0, which is a Sunday; UTC is
\* tz minutes ahead of the local clock.  In SchedSpec the calendar holds
\* records [agencyId, startTime, endTime, status].

MinutesPerDay == 1440
startHour == 9
endHour == 17
SlotMinutes == 30
DefaultDuration == 30

\* The local day on which the calls are made (day 3 is a Wednesday).
FirstDay == 3
\* Bound on the calls made to the engine in one behaviour.
MaxCalls == 1

\* The clock readings at which the engine is called.
Nows == {FirstDay * MinutesPerDay + 8 * 60,
         FirstDay * MinutesPerDay + 10 * 60 + 15,
         FirstDay * MinutesPerDay + 23 * 60 + 30}
\* The server's zone: UTC, UTC-5.
Zones == {0, 300}
\* agencyId 0 is a missing agencyId.
AgencyIds == {0, 1, 2}
\* args.duration; 0 is an absent duration.
Durations == {0, 15, 30, 60}
\* args.date by its form: absent, "today", "tomorrow", "next <word>" with the
\* index of the word in dayNames (7: not a day name), a YYYY-MM-DD date with
\* its day number, and a string no rule parses.
DateInputs ==
    {[kind |-> k, n |-> 0] : k \in {"missing", "today", "tomorrow", "unparseable"}}
        \cup {[kind |-> "next", n |-> d] : d \in {1, 3, 7}}
        \cup {[kind |-> "iso", n |-> d] : d \in {FirstDay, FirstDay + 1}}

\* The entries the calendar may hold before the calls, all on the day after
\* FirstDay: a morning appointment, one across the end of business hours, a
\* cancelled one, and one of another agency.
CandidateEvents ==
    LET day == (FirstDay + 1) * MinutesPerDay
    IN  << [agencyId |-> 1, startTime |-> day + 600, endTime |-> day + 660, status |-> "scheduled"],
           [agencyId |-> 1, startTime |-> day + 1005, endTime |-> day + 1035, status |-> "scheduled"],
           [agencyId |-> 1, startTime |-> day + 540, endTime |-> day + 570, status |-> "cancelled"],
           [agencyId |-> 2, startTime |-> day + 780, endTime |-> day + 810, status |-> "scheduled"] >>
Calendars ==
    {SelectSeq(CandidateEvents, LAMBDA e : e \in S) :
        S \in SUBSET {CandidateEvents[k] : k \in 1..Len(CandidateEvents)}}

\* Date.getDay(): 0 is Sunday.
getDay(date) == (date \div MinutesPerDay) % 7

\* Mutation of parseNaturalDate: a named day that is today's resolves to today.
parseNaturalDateSameDayToday(dateStr, today, zone) ==
    CASE dateStr.kind = "today" -> today
      [] dateStr.kind = "tomorrow" -> today + MinutesPerDay
      [] dateStr.kind = "next" /\ dateStr.n \in 0..6 ->
            LET diff == dateStr.n - getDay(today)
                daysUntil == IF diff < 0 THEN diff + 7 ELSE diff
            IN  today + daysUntil * MinutesPerDay
      [] dateStr.kind = "iso" -> dateStr.n * MinutesPerDay - zone
      [] OTHER -> today

\* Mutation of parseNaturalDate: a string no rule parses resolves to tomorrow.
parseNaturalDateDefaultsTomorrow(dateStr, today, zone) ==
    CASE dateStr.kind = "today" -> today
      [] dateStr.kind = "tomorrow" -> today + MinutesPerDay
      [] dateStr.kind = "next" /\ dateStr.n \in 0..6 ->
            LET diff == dateStr.n - getDay(today)
                daysUntil == IF diff <= 0 THEN diff + 7 ELSE diff
            IN  today + daysUntil * MinutesPerDay
      [] dateStr.kind = "iso" -> dateStr.n * MinutesPerDay - zone
      [] OTHER -> today + MinutesPerDay

\* parseNaturalDate, with new Date() and the zone as parameters.
parseNaturalDate(dateStr, today, zone) ==
    CASE dateStr.kind = "today" -> today
      [] dateStr.kind = "tomorrow" -> today + MinutesPerDay
      [] dateStr.kind = "next" /\ dateStr.n \in 0..6 ->
            LET diff == dateStr.n - getDay(today)
                daysUntil == IF diff <= 0 THEN diff + 7 ELSE diff
            IN  today + daysUntil * MinutesPerDay
      \* new Date("YYYY-MM-DD") is midnight UTC of that date
      [] dateStr.kind = "iso" -> dateStr.n * MinutesPerDay - zone
      [] OTHER -> today

startOfDay(date) == (date \div MinutesPerDay) * MinutesPerDay
\* 23:59:59.999; for whole minutes t, t < 23:59:59.999 is t <= endOfDay.
endOfDay(date) == startOfDay(date) + MinutesPerDay - 1

\* Mutation of SlotCandidates: the inner loop visits the full hour twice.
SlotCandidatesHourTwice(targetDate) ==
    [i \in 1..(((endHour - startHour) * 60) \div SlotMinutes) |->
        startOfDay(targetDate) + startHour * 60 + ((i - 1) \div 2) * 60]

\* The slot starts the two loops visit, in order.
SlotCandidates(targetDate) ==
    [i \in 1..(((endHour - startHour) * 60) \div SlotMinutes) |->
        startOfDay(targetDate) + startHour * 60 + (i - 1) * SlotMinutes]

hasConflict(slotStart, slotEnd, existingEvents) ==
    \E event \in existingEvents : slotStart < event.endTime /\ slotEnd > event.startTime

generateAvailableSlots(targetDate, existingEvents, durationMinutes) ==
    SelectSeq(SlotCandidates(targetDate),
              LAMBDA slotStart : ~hasConflict(slotStart, slotStart + durationMinutes, existingEvents))
\* prisma.calendarEvent.findMany of checkAvailability: the agency's entries
\* that overlap the day and are not cancelled.
findManyEvents(agencyId, dayStart, dayEnd) ==
    {calendar[k] : k \in {j \in 1..Len(calendar) :
                              /\ calendar[j].agencyId = agencyId
                              /\ calendar[j].startTime <= dayEnd
                              /\ calendar[j].endTime > dayStart
                              /\ calendar[j].status # "cancelled"}}

\* toISOString().split('T')[0]: the UTC date of an instant, as a day number.
toISODate(date, zone) == (date + zone) \div MinutesPerDay
\* toLocaleTimeString: the local time of day of an instant, in minutes.
toLocaleTimeString(date) == date % MinutesPerDay

\* What a call that does not succeed gives: the early returns, and the
\* rejection of findMany that executeFunctionCall reports as a failure.
Failure == [success |-> FALSE, date |-> 0, slotStarts |-> <<>>, availableSlots |-> <<>>]

\* checkAvailability; ok is whether findMany resolves.  slotStarts are the
\* Date objects of the slots, availableSlots their formatted times.
checkAvailability(agencyId, args, ok) ==
    IF agencyId = 0 \/ args.date.kind = "missing" \/ ~ok
    THEN Failure
    ELSE LET duration == IF args.duration = 0 THEN DefaultDuration ELSE args.duration
             targetDate == parseNaturalDate(args.date, now, tz)
             events == findManyEvents(agencyId, startOfDay(targetDate), endOfDay(targetDate))
             slots == generateAvailableSlots(targetDate, events, duration)
         IN  [success |-> TRUE,
              date |-> toISODate(targetDate, tz),
              slotStarts |-> slots,
              availableSlots |-> [i \in 1..Len(slots) |-> toLocaleTimeString(slots[i])]]

\* Mutation of CheckAvailabilityCall: the call holds the first slot it offers
\* by writing an entry for it.
CheckAvailabilityCallHolds(agencyId, args, ok) ==
    /\ nCalls' = nCalls + 1
    /\ call' = [fn |-> "checkAvailability", agencyId |-> agencyId, args |-> args, at |-> now]
    /\ returned' = checkAvailability(agencyId, args, ok)
    /\ calendar' = IF returned'.slotStarts # <<>>
                   THEN Append(calendar, [agencyId |-> agencyId,
                                          startTime |-> returned'.slotStarts[1],
                                          endTime |-> returned'.slotStarts[1] + SlotMinutes,
                                          status |-> "scheduled"])
                   ELSE calendar
    /\ UNCHANGED <<now, tz>>
    /\ UNCHANGED <<bridgeVars, clientVars>>

\* One call of checkAvailability, made at clock reading now.
CheckAvailabilityCall(agencyId, args, ok) ==
    /\ nCalls' = nCalls + 1
    /\ call' = [fn |-> "checkAvailability", agencyId |-> agencyId, args |-> args, at |-> now]
    /\ returned' = checkAvailability(agencyId, args, ok)
    /\ UNCHANGED <<now, tz, calendar>>
    /\ UNCHANGED <<bridgeVars, clientVars>>

\* bookAppointment; args.dateTime is the instant new Date(dateTime) gives, ok
\* is whether prisma.calendarEvent.create resolves.  The entry it creates:
BookedEvent(agencyId, args) ==
    LET duration == IF args.duration = 0 THEN DefaultDuration ELSE args.duration
    IN  [agencyId |-> agencyId, startTime |-> args.dateTime,
         endTime |-> args.dateTime + duration, status |-> "scheduled"]

\* Mutation of BookAppointmentCall: an appointment that overlaps a scheduled
\* entry of the agency is refused.
BookAppointmentCallRechecks(agencyId, args, ok) ==
    LET taken == hasConflict(BookedEvent(agencyId, args).startTime,
                             BookedEvent(agencyId, args).endTime,
                             {calendar[k] : k \in {j \in 1..Len(calendar) :
                                                      /\ calendar[j].agencyId = agencyId
                                                      /\ calendar[j].status = "scheduled"}})
    IN  /\ nCalls' = nCalls + 1
        /\ call' = [fn |-> "bookAppointment", agencyId |-> agencyId, args |-> args,
                    at |-> now, ok |-> ok]
        /\ calendar' = IF ok /\ ~taken THEN Append(calendar, BookedEvent(agencyId, args))
                       ELSE calendar
        /\ returned' = IF ok /\ ~taken
                       THEN [success |-> TRUE, dateTime |-> args.dateTime]
                       ELSE Failure
        /\ UNCHANGED <<now, tz>>
        /\ UNCHANGED <<bridgeVars, clientVars>>

\* One call of bookAppointment: the entry is created with no look at the
\* calendar; a rejected create is the failure executeFunctionCall reports.
BookAppointmentCall(agencyId, args, ok) ==
    /\ nCalls' = nCalls + 1
    /\ call' = [fn |-> "bookAppointment", agencyId |-> agencyId, args |-> args,
                at |-> now, ok |-> ok]
    /\ calendar' = IF ok THEN Append(calendar, BookedEvent(agencyId, args)) ELSE calendar
    /\ returned' = IF ok
                   THEN [success |-> TRUE, dateTime |-> args.dateTime]
                   ELSE Failure
    /\ UNCHANGED <<now, tz>>
    /\ UNCHANGED <<bridgeVars, clientVars>>

\* Time passes between two calls.
ClockAdvances ==
    /\ \E t \in Nows : t > now /\ now' = t
    /\ UNCHANGED <<tz, calendar, call, returned, nCalls>>
    /\ UNCHANGED <<bridgeVars, clientVars>>

\* The engine is called at some time, in some zone, over some calendar.
SchedInit ==
    /\ now \in Nows
    /\ tz \in Zones
    /\ calendar \in Calendars
    /\ call = NoCall /\ returned = NoResult /\ nCalls = 0
    /\ tw = "OPEN" /\ streamSid = 0 /\ conversationId = 0 /\ openaiWs = 0
    /\ conns = <<>> /\ pending = {} /\ convs = <<>> /\ msgs = <<>> /\ twSent = <<>>
    /\ crashed = FALSE
    /\ nStart = 0 /\ nMedia = 0 /\ nStop = 0 /\ nAi = 0 /\ nBad = 0 /\ badRun = 0
    /\ agentNotFound = FALSE /\ fcRecv = {} /\ trRecv = {}
    /\ ClientIdle

SchedNext ==
    /\ nCalls < MaxCalls
    /\ \E agencyId \in AgencyIds, date \in DateInputs, duration \in Durations, ok \in BOOLEAN :
          CheckAvailabilityCall(agencyId, [date |-> date, duration |-> duration], ok)

SchedSpec == SchedInit /\ [][SchedNext]_vars

\* Bookings followed by queries: a second specification of the engine, over
\* an empty calendar and with fewer inputs, in which several calls follow
\* one another.
MaxBookCalls == 2
\* Appointments asked for on the day after FirstDay: 10:00 and 10:15.
BookTimes == {(FirstDay + 1) * MinutesPerDay + 600, (FirstDay + 1) * MinutesPerDay + 615}
BookDurations == {0, 60}
\* The queries about that day.
BookDates == {[kind |-> "tomorrow", n |-> 0], [kind |-> "iso", n |-> FirstDay + 1]}
QueryDurations == {0, 15, 60}

BookInit ==
    /\ now = FirstDay * MinutesPerDay + 8 * 60
    /\ tz \in Zones
    /\ calendar = <<>>
    /\ call = NoCall /\ returned = NoResult /\ nCalls = 0
    /\ tw = "OPEN" /\ streamSid = 0 /\ conversationId = 0 /\ openaiWs = 0
    /\ conns = <<>> /\ pending = {} /\ convs = <<>> /\ msgs = <<>> /\ twSent = <<>>
    /\ crashed = FALSE
    /\ nStart = 0 /\ nMedia = 0 /\ nStop = 0 /\ nAi = 0 /\ nBad = 0 /\ badRun = 0
    /\ agentNotFound = FALSE /\ fcRecv = {} /\ trRecv = {}
    /\ ClientIdle

BookNext ==
    \/ /\ nCalls < MaxBookCalls
       /\ \E agencyId \in {1, 2}, dateTime \in BookTimes, duration \in BookDurations, ok \in BOOLEAN :
             BookAppointmentCall(agencyId, [dateTime |-> dateTime, duration |-> duration], ok)
    \/ /\ nCalls < MaxBookCalls
       /\ \E date \in BookDates, duration \in QueryDurations :
             CheckAvailabilityCall(1, [date |-> date, duration |-> duration], TRUE)
    \/ ClockAdvances

BookSpec == BookInit /\ [][BookNext]_vars

\* parseNaturalDate on every day of the week: a specification that applies
\* the function alone, at the start, in the morning and late in the evening
\* of seven consecutive days.
WeekNows == {(FirstDay + d) * MinutesPerDay + t : d \in 0..6, t \in {0, 8 * 60, 23 * 60 + 30}}
\* The date strings: those of DateInputs and "next <word>" for every day name.
WeekDateInputs ==
    (DateInputs \ {[kind |-> "missing", n |-> 0]}) \cup {[kind |-> "next", n |-> d] : d \in 0..7}

\* One application of parseNaturalDate, at clock reading now.
ParseNaturalDateCall(dateStr) ==
    /\ nCalls' = nCalls + 1
    /\ call' = [fn |-> "parseNaturalDate", args |-> [date |-> dateStr], at |-> now]
    /\ returned' = [success |-> TRUE, parsed |-> parseNaturalDate(dateStr, now, tz)]
    /\ UNCHANGED <<now, tz, calendar>>
    /\ UNCHANGED <<bridgeVars, clientVars>>

WeekInit ==
    /\ now \in WeekNows
    /\ tz \in Zones
    /\ calendar = <<>>
    /\ call = NoCall /\ returned = NoResult /\ nCalls = 0
    /\ tw = "OPEN" /\ streamSid = 0 /\ conversationId = 0 /\ openaiWs = 0
    /\ conns = <<>> /\ pending = {} /\ convs = <<>> /\ msgs = <<>> /\ twSent = <<>>
    /\ crashed = FALSE
    /\ nStart = 0 /\ nMedia = 0 /\ nStop = 0 /\ nAi = 0 /\ nBad = 0 /\ badRun = 0
    /\ agentNotFound = FALSE /\ fcRecv = {} /\ trRecv = {}
    /\ ClientIdle

WeekNext ==
    /\ nCalls < MaxCalls
    /\ \E dateStr \in WeekDateInputs : ParseNaturalDateCall(dateStr)

WeekSpec == WeekInit /\ [][WeekNext]_vars

\* getNextAvailableSlot: the search for the next free slot, in a third
\* specification of the engine whose calendars hold whole days of
\* appointments and whose clock readings include a Friday afternoon and a
\* Saturday.
MaxScanCalls == 1
\* Math.min(daysToSearch, 30)
MaxDaysToSearch == 30
DefaultDaysToSearch == 7

\* The day is a Saturday or a Sunday.
isWeekendSundayOnly(checkDate) == getDay(checkDate) = 0
isWeekend(checkDate) == getDay(checkDate) = 0 \/ getDay(checkDate) = 6

\* The filter of past slots, applied to the slots of the day of the call.
filterPastKeepsAll(slots, dayOffset) == slots
filterPast(slots, dayOffset) ==
    IF dayOffset = 0
    THEN SelectSeq(slots, LAMBDA s : toLocaleTimeString(s) > toLocaleTimeString(now))
    ELSE slots

\* slots.slice(1, 4)
slice(slots, from, to) ==
    SubSeq(slots, from + 1, IF to < Len(slots) THEN to ELSE Len(slots))

\* The answer when no scanned day has a slot.
NoAvailability(maxDays) == [success |-> FALSE, notFound |-> TRUE, maxDays |-> maxDays]

\* The loop over dayOffset, from dayOffset on; ok is whether findMany resolves.
RECURSIVE scanDays(_, _, _, _, _)
scanDays(agencyId, duration, maxDays, dayOffset, ok) ==
    IF dayOffset >= maxDays
    THEN NoAvailability(maxDays)
    ELSE LET checkDate == now + dayOffset * MinutesPerDay
         IN  IF isWeekend(checkDate)
             THEN scanDays(agencyId, duration, maxDays, dayOffset + 1, ok)
             ELSE IF ~ok
             THEN Failure
             ELSE LET events == findManyEvents(agencyId, startOfDay(checkDate), endOfDay(checkDate))
                      slots == filterPast(generateAvailableSlots(checkDate, events, duration), dayOffset)
                  IN  IF Len(slots) > 0
                      THEN [success |-> TRUE,
                            dateTime |-> slots[1],
                            formattedDate |-> checkDate \div MinutesPerDay,
                            formattedTime |-> toLocaleTimeString(slots[1]),
                            otherSlots |-> [i \in 1..Len(slice(slots, 1, 4)) |->
                                               toLocaleTimeString(slice(slots, 1, 4)[i])]]
                      ELSE scanDays(agencyId, duration, maxDays, dayOffset + 1, ok)

\* getNextAvailableSlot; 0 is an absent duration, an absent daysToSearch.
getNextAvailableSlot(agencyId, args, ok) ==
    IF agencyId = 0
    THEN Failure
    ELSE LET duration == IF args.duration = 0 THEN DefaultDuration ELSE args.duration
             daysToSearch == IF args.daysToSearch = 0 THEN DefaultDaysToSearch ELSE args.daysToSearch
             maxDays == IF daysToSearch < MaxDaysToSearch THEN daysToSearch ELSE MaxDaysToSearch
         IN  scanDays(agencyId, duration, maxDays, 0, ok)

\* One call of getNextAvailableSlot, made at clock reading now.
GetNextAvailableSlotCall(agencyId, args, ok) ==
    /\ nCalls' = nCalls + 1
    /\ call' = [fn |-> "getNextAvailableSlot", agencyId |-> agencyId, args |-> args,
                at |-> now, ok |-> ok]
    /\ returned' = getNextAvailableSlot(agencyId, args, ok)
    /\ UNCHANGED <<now, tz, calendar>>
    /\ UNCHANGED <<bridgeVars, clientVars>>

\* The clock readings of the search: before business hours, on a slot
\* boundary, and with two slots left on FirstDay; after the last slot of the
\* second day after it and in the morning of the third (a Friday and a
\* Saturday).
ScanNows == {FirstDay * MinutesPerDay + 8 * 60,
             FirstDay * MinutesPerDay + 10 * 60,
             FirstDay * MinutesPerDay + 15 * 60 + 40,
             (FirstDay + 2) * MinutesPerDay + 16 * 60 + 45,
             (FirstDay + 3) * MinutesPerDay + 10 * 60}
\* The entries the calendar may hold: FirstDay full, an hour of FirstDay, the
\* next day full, the day after it full but cancelled, and one entry that
\* covers the thirty days from the third day after FirstDay on.
ScanEvents ==
    LET day == FirstDay * MinutesPerDay
    IN  << [agencyId |-> 1, startTime |-> day + 540, endTime |-> day + 1020, status |-> "scheduled"],
           [agencyId |-> 1, startTime |-> day + 630, endTime |-> day + 690, status |-> "scheduled"],
           [agencyId |-> 1, startTime |-> day + MinutesPerDay + 540,
            endTime |-> day + MinutesPerDay + 1020, status |-> "scheduled"],
           [agencyId |-> 1, startTime |-> day + 2 * MinutesPerDay + 540,
            endTime |-> day + 2 * MinutesPerDay + 1020, status |-> "cancelled"],
           [agencyId |-> 1, startTime |-> day + 3 * MinutesPerDay,
            endTime |-> day + 33 * MinutesPerDay, status |-> "scheduled"] >>
ScanCalendars ==
    {SelectSeq(ScanEvents, LAMBDA e : e \in S) :
        S \in SUBSET {ScanEvents[k] : k \in 1..Len(ScanEvents)}}
\* args.daysToSearch; 0 is an absent daysToSearch.
DaysToSearch == {0, 1, 3, 40}
ScanDurations == {0, 60}

ScanInit ==
    /\ now \in ScanNows
    /\ tz \in Zones
    /\ calendar \in ScanCalendars
    /\ call = NoCall /\ returned = NoResult /\ nCalls = 0
    /\ tw = "OPEN" /\ streamSid = 0 /\ conversationId = 0 /\ openaiWs = 0
    /\ conns = <<>> /\ pending = {} /\ convs = <<>> /\ msgs = <<>> /\ twSent = <<>>
    /\ crashed = FALSE
    /\ nStart = 0 /\ nMedia = 0 /\ nStop = 0 /\ nAi = 0 /\ nBad = 0 /\ badRun = 0
    /\ agentNotFound = FALSE /\ fcRecv = {} /\ trRecv = {}
    /\ ClientIdle

ScanNext ==
    /\ nCalls < MaxScanCalls
    /\ \E agencyId \in {0, 1}, duration \in ScanDurations, daysToSearch \in DaysToSearch,
          ok \in BOOLEAN :
          GetNextAvailableSlotCall(agencyId, [duration |-> duration, daysToSearch |-> daysToSearch], ok)

ScanSpec == ScanInit /\ [][ScanNext]_vars

----------------------------------------------------------------------------
\* The realtime session client: class OpenAIRealtimeClient of
\* src/lib/openai-realtime-client.js.  One client object, the sockets its
\* connect() calls create, and the promise each connect() returned (kept in
\* the socket's record).  Each call on the client and each socket event is
\* one action.
MaxClientCalls == 4
MaxSockets == 2

\* The messages the client puts on the wire.
ClientSessionUpdate ==
    [type |-> "session.update", input_audio_format |-> "pcm16", output_audio_format |-> "pcm16"]
ClientAudioAppend == [type |-> "input_audio_buffer.append"]
ClientAudioCommit == [type |-> "input_audio_buffer.commit"]
\* Some message a caller passes to send().
ClientMessage == [type |-> "response.create"]

\* send(message): the message goes to this.ws when this.ws is set and OPEN;
\* the outcome is the sockets afterwards and whether ws.send threw.
clientSendNullOnly(cs, w, m, thr) ==
    IF w # 0
    THEN [threw |-> wsSendThrows(cs, w, thr), cs |-> wsSend(cs, w, <<m>>)]
    ELSE [threw |-> FALSE, cs |-> cs]

clientSend(cs, w, m, thr) ==
    IF w # 0 /\ cs[w].rs = "OPEN"
    THEN [threw |-> wsSendThrows(cs, w, thr), cs |-> wsSend(cs, w, <<m>>)]
    ELSE [threw |-> FALSE, cs |-> cs]

\* A call on the client is made while the bound allows.
ClientCallAllowed == nClientCalls < MaxClientCalls

\* connect(): a new socket replaces this.ws; the promise is pending.
ClientConnect ==
    /\ ClientCallAllowed /\ Len(sockets) < MaxSockets
    /\ sockets' = Append(sockets, [rs |-> "CONNECTING", sent |-> <<>>, promise |-> "pending"])
    /\ clientWs' = Len(sockets) + 1
    /\ clientCall' = [op |-> "connect", sent |-> FALSE]
    /\ nClientCalls' = nClientCalls + 1
    /\ UNCHANGED clientThrew
    /\ UNCHANGED <<bridgeVars, calendar, schedVars>>

\* The 'open' handler of socket k: this.send(session.update), which sends on
\* this.ws, then resolve().
ClientSocketOpen(k, thr) ==
    /\ k \in 1..Len(sockets) /\ sockets[k].rs = "CONNECTING"
    /\ LET opened == [sockets EXCEPT ![k].rs = "OPEN"]
           out == clientSend(opened, clientWs, ClientSessionUpdate, thr)
       IN /\ clientThrew' = (clientThrew \/ out.threw)
          /\ sockets' = IF out.threw THEN opened
                        ELSE [out.cs EXCEPT ![k].promise = "resolved"]
    /\ UNCHANGED <<clientWs, clientCall, nClientCalls>>
    /\ UNCHANGED <<bridgeVars, calendar, schedVars>>

\* The 'error' handler of socket k: reject(error), which settles a pending
\* promise only; the socket that errored closes.
ClientSocketError(k) ==
    /\ k \in 1..Len(sockets) /\ sockets[k].rs \in {"CONNECTING", "OPEN"}
    /\ sockets' = [sockets EXCEPT ![k].rs = "CLOSED",
                                  ![k].promise = IF @ = "pending" THEN "rejected" ELSE @]
    /\ UNCHANGED <<clientWs, clientThrew, clientCall, nClientCalls>>
    /\ UNCHANGED <<bridgeVars, calendar, schedVars>>

\* The 'close' handler of socket k: a log line.
ClientSocketClose(k) ==
    /\ k \in 1..Len(sockets) /\ sockets[k].rs \in {"OPEN", "CLOSING"}
    /\ sockets' = [sockets EXCEPT ![k].rs = "CLOSED"]
    /\ UNCHANGED <<clientWs, clientThrew, clientCall, nClientCalls>>
    /\ UNCHANGED <<bridgeVars, calendar, schedVars>>

\* A call that goes through send(): what it did is kept in clientCall.
ClientSent(op, out) ==
    /\ sockets' = IF out.threw THEN sockets ELSE out.cs
    /\ clientThrew' = (clientThrew \/ out.threw)
    /\ clientCall' = [op |-> op, sent |-> ~out.threw /\ out.cs # sockets]
    /\ nClientCalls' = nClientCalls + 1
    /\ UNCHANGED clientWs
    /\ UNCHANGED <<bridgeVars, calendar, schedVars>>

\* A caller calls send(message).
ClientSend(thr) ==
    /\ ClientCallAllowed
    /\ ClientSent("send", clientSend(sockets, clientWs, ClientMessage, thr))

\* A caller calls sendAudio(audioBuffer): its own test of this.ws, then send().
ClientSendAudio(thr) ==
    /\ ClientCallAllowed
    /\ ClientSent("sendAudio",
                  IF clientWs # 0 /\ sockets[clientWs].rs = "OPEN"
                  THEN clientSend(sockets, clientWs, ClientAudioAppend, thr)
                  ELSE [threw |-> FALSE, cs |-> sockets])

\* A caller calls commitAudio().
ClientCommitAudio(thr) ==
    /\ ClientCallAllowed
    /\ ClientSent("commitAudio", clientSend(sockets, clientWs, ClientAudioCommit, thr))

\* A caller calls close(): this.ws.close() and this.ws = null, when this.ws
\* is set.  Closing a CONNECTING socket aborts its handshake: the socket
\* emits 'error', which rejects the pending promise, and never opens.
ClientClose ==
    /\ ClientCallAllowed
    /\ IF clientWs # 0
       THEN sockets' = [wsClose(sockets, clientWs) EXCEPT
                           ![clientWs].promise = IF @ = "pending" THEN "rejected" ELSE @]
       ELSE UNCHANGED sockets
    /\ clientWs' = 0
    /\ clientCall' = [op |-> "close", sent |-> FALSE]
    /\ nClientCalls' = nClientCalls + 1
    /\ UNCHANGED clientThrew
    /\ UNCHANGED <<bridgeVars, calendar, schedVars>>

ClientInit ==
    /\ ClientIdle
    /\ tw = "OPEN" /\ streamSid = 0 /\ conversationId = 0 /\ openaiWs = 0
    /\ conns = <<>> /\ pending = {} /\ convs = <<>> /\ msgs = <<>> /\ twSent = <<>>
    /\ calendar = <<>> /\ crashed = FALSE
    /\ nStart = 0 /\ nMedia = 0 /\ nStop = 0 /\ nAi = 0 /\ nBad = 0 /\ badRun = 0
    /\ agentNotFound = FALSE /\ fcRecv = {} /\ trRecv = {}
    /\ now = 0 /\ tz = 0 /\ call = NoCall /\ returned = NoResult /\ nCalls = 0

ClientNext ==
    \/ ClientConnect
    \/ \E k \in 1..MaxSockets, thr \in BOOLEAN : ClientSocketOpen(k, thr)
    \/ \E k \in 1..MaxSockets : ClientSocketError(k)
    \/ \E k \in 1..MaxSockets : ClientSocketClose(k)
    \/ \E thr \in BOOLEAN : ClientSend(thr)
    \/ \E thr \in BOOLEAN : ClientSendAudio(thr)
    \/ \E thr \in BOOLEAN : ClientCommitAudio(thr)
    \/ ClientClose

ClientSpec == ClientInit /\ [][ClientNext]_vars
----------------------------------------------------------------------------
\* Properties

ConnIds == 1..Len(conns)
AiLive(c) == conns[c].rs \in {"CONNECTING", "OPEN"}
\* Both legs open: the caller leg, and the AI connection ws.
BothLegsOpen(ws) == tw = "OPEN" /\ ws # 0 /\ conns[ws].rs = "OPEN"
\* A step that changes the readyState of neither leg.
LegsUnchanged ==
    /\ tw' = tw
    /\ Len(conns') = Len(conns)
    /\ \A c \in ConnIds : conns'[c].rs = conns[c].rs
\* Teardown has begun: a stop event or the caller leg's close has been handled.
Teardown == nStop > 0 \/ tw = "CLOSED"

\* C1: once the caller leg has closed and its close handler has run, no AI
\* connection of the session is connecting or open, in every interleaving.
C1_CallerCloseClosesAi ==
    (tw = "CLOSED" /\ ~\E t \in pending : t.kind = "close_update")
        => \A c \in ConnIds : ~AiLive(c)

\* C2: when an AI connection that was connecting or open closes or errors, the
\* bridge closes the caller leg.
C2_AiCloseTearsDown ==
    [][\A c \in ConnIds : (AiLive(c) /\ AiClosed(c)) => tw' # "OPEN"]_vars

\* C3: a session creates at most one AI connection: never a second one beside
\* the first, never a new one after the first has closed.
C3_SingleAiConnection == Len(conns) <= 1

\* C4: once a start event has resolved to no active agent, the caller leg is
\* not open, no AI connection is created and no conversation record is created.
C4_NoAgentNoAi ==
    [][agentNotFound => (tw # "OPEN" /\ Len(conns') = Len(conns) /\ Len(convs') = Len(convs))]_vars

\* C5: an AI connection that was still connecting when the stop event was
\* handled never becomes open and configured, and no exception goes uncaught.
C5_StopWhileConnecting ==
    \A c \in ConnIds :
        conns[c].stopAt = "CONNECTING" => (conns[c].rs # "OPEN" /\ conns[c].sent = <<>> /\ ~crashed)

\* C6: once teardown has begun, an event arriving on either leg is discarded:
\* no frame goes to the caller, a media event sends nothing to the AI leg, and
\* an AI event sends nothing, suspends no handler (no transcript write, no tool
\* invocation).
C6_EventsAfterTeardownDiscarded ==
    [][Teardown => /\ twSent' = twSent
                   /\ (nMedia' # nMedia => conns' = conns)
                   /\ (nAi' # nAi => (conns' = conns /\ pending' = pending))]_vars

\* The places <<c, k>> where a function_call_output for call_id id was sent.
OutputsFor(id) ==
    {ck \in UNION {{<<c, k>> : k \in 1..Len(conns[c].sent)} : c \in ConnIds} :
        /\ conns[ck[1]].sent[ck[2]].item = "function_call_output"
        /\ conns[ck[1]].sent[ck[2]].id = id}

\* C7: every function-call event received is either still being executed, or
\* has exactly one function_call_output with its call_id, directly followed by
\* response.create.
C7_EveryFunctionCallAnswered ==
    \A id \in fcRecv :
        IF \E t \in pending : t.kind = "tool" /\ t.ev = id
        THEN OutputsFor(id) = {}
        ELSE /\ Cardinality(OutputsFor(id)) = 1
             /\ \A ck \in OutputsFor(id) :
                    /\ ck[2] < Len(conns[ck[1]].sent)
                    /\ conns[ck[1]].sent[ck[2] + 1] = ResponseCreate

\* C8: with both legs open, a function-call event naming an unknown tool sends
\* exactly the error output with its call_id and then response.create, and
\* leaves both legs open.
C8_UnknownFunctionAnswered ==
    [][\A c \in ConnIds, fn \in FunctionNames \ KnownFunctions :
          (BothLegsOpen(openaiWs) /\ AiFunctionCall(c, fn, "json"))
              => /\ conns'[openaiWs].sent = conns[openaiWs].sent \o
                        <<FunctionCallOutput(nAi + 1, UnknownFunctionResult), ResponseCreate>>
                 /\ LegsUnchanged
                 /\ ~crashed']_vars

\* A state in which C8's case has happened: the error output for an unknown
\* tool has been sent and both legs are open.
C8_Witness ==
    /\ BothLegsOpen(openaiWs)
    /\ \E k \in 1..Len(conns[openaiWs].sent) :
          /\ conns[openaiWs].sent[k].item = "function_call_output"
          /\ conns[openaiWs].sent[k].val = UnknownFunctionResult
          /\ k < Len(conns[openaiWs].sent)
          /\ conns[openaiWs].sent[k + 1] = ResponseCreate

\* C9: with both legs open, a scheduling operation that fails sends exactly the
\* failure output with its call_id and then response.create; both legs stay
\* open, nothing is booked, no exception goes uncaught, and the other suspended
\* handlers are untouched.
C9_ToolFailureReported ==
    [][\A t \in pending :
          (BothLegsOpen(t.ws) /\ ToolDone(t, FALSE))
              => /\ conns'[t.ws].sent = conns[t.ws].sent \o
                        <<FunctionCallOutput(t.ev, FailureResult), ResponseCreate>>
                 /\ LegsUnchanged
                 /\ calendar' = calendar
                 /\ pending' = pending \ {t}
                 /\ ~crashed']_vars

\* A state in which C9's case has happened: a failure output has been sent and
\* both legs are open.
C9_Witness ==
    /\ BothLegsOpen(openaiWs)
    /\ \E k \in 1..Len(conns[openaiWs].sent) :
          /\ conns[openaiWs].sent[k].item = "function_call_output"
          /\ conns[openaiWs].sent[k].val = FailureResult
          /\ k < Len(conns[openaiWs].sent)
          /\ conns[openaiWs].sent[k + 1] = ResponseCreate

\* C10: on every AI connection the first message sent is session.update, it is
\* sent at most once, and an open connection has received it.
C10_SessionUpdateFirstAndOnce ==
    \A c \in ConnIds :
        LET sent == conns[c].sent
        IN  /\ sent # <<>> => sent[1] = SessionUpdate
            /\ Cardinality({k \in 1..Len(sent) : sent[k].type = "session.update"}) <= 1
            /\ conns[c].rs = "OPEN" => sent # <<>>
----------------------------------------------------------------------------
\* Scope of the failures of C4 and C10: both need a second start event.

\* In a session that has received one start event, nothing is created once
\* that start has resolved to no active agent.
SingleStartNoAgentNoAi ==
    [][(nStart <= 1 /\ agentNotFound)
          => (tw # "OPEN" /\ Len(conns') = Len(conns) /\ Len(convs') = Len(convs))]_vars

\* In a session that has received one start event, session.update is the first
\* message on the AI connection and is sent once.
SingleStartSessionUpdateFirstAndOnce == nStart <= 1 => C10_SessionUpdateFirstAndOnce
----------------------------------------------------------------------------
\* The messages a step appended to the log of AI connection c.
NewlySent(c) == SubSeq(conns'[c].sent, Len(conns[c].sent) + 1, Len(conns'[c].sent))

\* Every response.create in a log directly follows the greeting item or a tool
\* result, and every greeting item directly follows session.update.
TriggersJustified ==
    \A c \in ConnIds :
        LET sent == conns[c].sent
        IN  \A k \in 1..Len(sent) :
                /\ sent[k] = ResponseCreate
                      => k > 1 /\ (sent[k - 1] = GreetingItem \/ sent[k - 1].item = "function_call_output")
                /\ sent[k] = GreetingItem => k > 1 /\ sent[k - 1] = SessionUpdate

\* C11: an open handler that sends session.update sends right after it the
\* greeting item and one response.create when its agent has a greeting, and
\* nothing more when it has none; any other response.create follows a tool
\* result (the logs are looked at after every step that changes them).
C11_GreetingAfterSessionUpdate ==
    [][/\ \A c \in ConnIds, thr \in BOOLEAN :
             (AiOpen(c, thr) /\ NewlySent(openaiWs) # <<>>)
                 => NewlySent(openaiWs) =
                        IF conns[c].agent.greeting
                        THEN <<SessionUpdate, GreetingItem, ResponseCreate>>
                        ELSE <<SessionUpdate>>
       /\ conns' # conns => TriggersJustified']_vars

\* C11 witness: an agent with a greeting, its connection open and primed.
C11_Witness ==
    \E c \in ConnIds :
        /\ conns[c].agent.greeting
        /\ conns[c].rs = "OPEN"
        /\ conns[c].sent = <<SessionUpdate, GreetingItem, ResponseCreate>>

\* The positions of the audio appends in the log of AI connection c.
AppendAt(c) == {k \in 1..Len(conns[c].sent) : conns[c].sent[k].type = "input_audio_buffer.append"}

LateAudioDropped(c) ==
    /\ twSent' # twSent
          => /\ streamSid \in 1..nStart
             /\ twSent' = Append(twSent, [streamSid |-> streamSid, payload |-> nAi + 1])
    /\ tw # "OPEN" => (twSent' = twSent /\ ~crashed')

\* C13: every frame to the caller carries the stream identifier of the start
\* event; an audio delta that arrives when the caller leg is not open is
\* dropped with no exception and no send; and the AI connection it arrived on
\* is then closed: once the caller leg has closed, that connection is closing
\* or the close handler is still about to close it.
C13_LateAudioDroppedAiClosed ==
    [][\A c \in ConnIds :
          AiAudioDelta(c)
              => /\ LateAudioDropped(c)
                 /\ tw = "CLOSED"
                       => (conns[c].rs = "CLOSING" \/ \E t \in pending : t.kind = "close_update")]_vars

\* The part of C13 that holds: frames carry the stream identifier and late
\* audio is dropped silently.
LateAudioDroppedSilently ==
    [][\A c \in ConnIds : AiAudioDelta(c) => LateAudioDropped(c)]_vars

\* The turns of the log that record transcript event e.
TurnsOf(e) == {k \in 1..Len(msgs) : msgs[k].text = e.ev /\ msgs[k].role = e.role}
\* The write of transcript event e has not completed yet.
SavePending(e) == \E t \in pending : t.kind = "save" /\ t.ev = e.ev
\* Every turn records a received transcript event, in that event's role.
TurnsAreEvents ==
    \A k \in 1..Len(msgs) : [ev |-> msgs[k].text, role |-> msgs[k].role] \in trRecv
\* The log changes only by the completion of a transcript write, which appends.
LogGrows ==
    msgs' # msgs
        => \E t \in pending :
              /\ t.kind = "save"
              /\ msgs' = Append(msgs, [conv |-> t.conv, role |-> t.role, text |-> t.ev])

\* C14: the log only grows, by transcript writes alone; every turn records a
\* received transcript event, and every such event whose write has completed
\* has exactly one turn.
C14_ExactlyOneTurnPerEvent ==
    [][/\ LogGrows
       /\ TurnsAreEvents'
       /\ \A e \in trRecv' : ~SavePending(e)' => Cardinality(TurnsOf(e)') = 1]_vars

\* C14 as amended: the log only grows, by transcript writes alone; every turn
\* records a received transcript event; an event has no turn while its write
\* is pending, one turn from the step its write succeeds, none when it fails,
\* and never two.
C14_AtMostOneTurnPerEvent ==
    [][/\ LogGrows
       /\ TurnsAreEvents'
       /\ \A e \in trRecv' :
             /\ Cardinality(TurnsOf(e)') <= 1
             /\ SavePending(e)' => TurnsOf(e)' = {}
       /\ \A t \in pending :
             /\ SaveDone(t, TRUE) => Cardinality(TurnsOf([ev |-> t.ev, role |-> t.role])') = 1
             /\ SaveDone(t, FALSE) => TurnsOf([ev |-> t.ev, role |-> t.role])' = {}]_vars

\* C14 witness: of two transcript events, one has its turn and the other's
\* write has failed.
C14_Witness ==
    \E e1, e2 \in trRecv :
        /\ Cardinality(TurnsOf(e1)) = 1
        /\ TurnsOf(e2) = {} /\ ~SavePending(e2)

\* C15: when a transcript write or an appointment write fails, only the
\* suspended handler ends: no readyState changes, the session variables and
\* the stores are unchanged, no exception goes uncaught, and the other
\* suspended handlers stay as they were.
C15_WriteFailureDoesNotDisrupt ==
    [][\A t \in pending :
          (SaveDone(t, FALSE) \/ (t.fn = "book_appointment" /\ ToolDone(t, FALSE)))
              => /\ LegsUnchanged
                 /\ UNCHANGED <<streamSid, conversationId, openaiWs, convs, msgs, calendar, twSent>>
                 /\ ~crashed'
                 /\ pending' = pending \ {t}]_vars

\* C15 witness: a transcript event whose write has failed, both legs open.
C15_Witness ==
    /\ BothLegsOpen(openaiWs)
    /\ \E e \in trRecv : TurnsOf(e) = {} /\ ~SavePending(e)

\* C16: when the write that marks the conversation completed fails, on the
\* stop event as on the caller leg's close, the handler still closes the AI
\* connection: after it has resumed, the connection openaiWs refers to is
\* neither connecting nor open.
C16_CompletionWriteBestEffort ==
    [][\A t \in pending :
          ((t.kind = "stop_update" /\ TwilioHandlerFails(t)) \/ CloseUpdateDone(t, FALSE))
              => (openaiWs # 0 => ~AiLive(openaiWs)')]_vars

\* The part of C16 that holds: the caller leg's close handler closes the AI
\* connection whether or not its write succeeds.
CloseWriteBestEffort ==
    [][\A t \in pending, ok \in BOOLEAN :
          CloseUpdateDone(t, ok) => (openaiWs # 0 => ~AiLive(openaiWs)')]_vars

\* C17: a malformed message on either leg changes nothing: no readyState, no
\* session variable, no suspended handler, no store, nothing sent, nothing
\* uncaught; so the next message finds the state the malformed one found.
C17_MalformedChangesNothing ==
    [][(TwilioMalformed \/ \E c \in ConnIds : AiMalformed(c))
          => UNCHANGED <<tw, streamSid, conversationId, openaiWs, conns, pending, convs, msgs,
                         calendar, twSent, crashed>>]_vars

\* C17 witness: a malformed message has arrived on each leg and both legs are
\* open.
C17_Witness == nBad = 2 /\ badRun = 1 /\ BothLegsOpen(openaiWs)

\* C18: once more than DecodeBudget consecutive caller-leg messages have
\* failed to decode, the session has been torn down: it is not running with
\* both legs open.
C18_DecodeFailuresEscalate == badRun > DecodeBudget => ~BothLegsOpen(openaiWs)

\* C19: while any handler is suspended (a transcript write, a conversation
\* write, a tool invocation), a media frame the caller leg delivers can be
\* handled at once and is appended to the open AI connection, and an audio
\* delta an AI connection delivers can be handled at once and is framed to the
\* open caller leg.
C19_RelayNeverBlocked ==
    pending # {}
        => /\ (TwilioDelivers /\ Delivered < MaxEvents /\ openaiWs # 0 /\ conns[openaiWs].rs = "OPEN")
                 => ENABLED (/\ TwilioMedia
                             /\ conns'[openaiWs].sent = Append(conns[openaiWs].sent, AudioAppend(nMedia + 1)))
           /\ \A c \in ConnIds :
                 (AiDelivers(c) /\ tw = "OPEN")
                     => ENABLED (/\ AiAudioDelta(c)
                                 /\ twSent' = Append(twSent, [streamSid |-> streamSid, payload |-> nAi + 1]))

\* C19 witness: an audio delta that arrived after a transcript event was framed
\* to the caller while that event's write was still pending.
C19_Witness ==
    \E t \in pending :
        /\ t.kind = "save"
        /\ \E k \in 1..Len(twSent) : twSent[k].payload > t.ev
----------------------------------------------------------------------------
\* Properties of the scheduling engine (under SchedSpec)

\* The duration the last call worked with.
CallDuration == IF call.args.duration = 0 THEN DefaultDuration ELSE call.args.duration
\* The slots of the last successful checkAvailability call.
ReturnedSlots ==
    IF call.fn = "checkAvailability" /\ returned.success
    THEN {returned.slotStarts[i] : i \in 1..Len(returned.slotStarts)}
    ELSE {}
\* Slot s starts inside business hours, on a 30-minute boundary.
StartsInWindow(s) ==
    /\ s >= startOfDay(s) + startHour * 60
    /\ s < startOfDay(s) + endHour * 60
    /\ (s - startOfDay(s)) % SlotMinutes = 0
\* Slot s overlaps no entry of the calling agency that is not cancelled.
OverlapsNoEntry(s) ==
    \A k \in 1..Len(calendar) :
        (calendar[k].agencyId = call.agencyId /\ calendar[k].status # "cancelled")
            => ~(s < calendar[k].endTime /\ s + CallDuration > calendar[k].startTime)

\* C20: every slot checkAvailability returns starts and ends inside 09:00 to
\* 17:00, starts on a 30-minute boundary, and overlaps no entry of the agency
\* that is not cancelled.
C20_SlotsWithinBusinessHours ==
    \A s \in ReturnedSlots :
        /\ StartsInWindow(s)
        /\ s + CallDuration <= startOfDay(s) + endHour * 60
        /\ OverlapsNoEntry(s)

\* The part of C20 that holds: every slot starts inside the window, on a
\* boundary, and overlaps no entry that is not cancelled.
SlotsStartInWindowNoOverlap ==
    \A s \in ReturnedSlots : StartsInWindow(s) /\ OverlapsNoEntry(s)

\* The local day a checkAvailability call c asks about: the day its date
\* names, which for the relative forms is counted from the day of the call.
AskedDay(c) ==
    IF c.args.date.kind = "iso"
    THEN c.args.date.n
    ELSE parseNaturalDate(c.args.date, c.at, 0) \div MinutesPerDay
\* The slots of the last successful checkAvailability call as the caller is
\* told them: the returned date with each returned time of day.
OfferedSlots ==
    IF call.fn = "checkAvailability" /\ returned.success
    THEN {returned.date * MinutesPerDay + returned.availableSlots[i] :
              i \in 1..Len(returned.availableSlots)}
    ELSE {}
\* No offered slot overlaps an entry of the calling agency on the asked day.
BookedIntervalsExcluded ==
    \A s \in OfferedSlots :
        \A k \in 1..Len(calendar) :
            (/\ calendar[k].agencyId = call.agencyId
             /\ calendar[k].status = "scheduled"
             /\ calendar[k].startTime \div MinutesPerDay = AskedDay(call))
                => ~(s < calendar[k].endTime /\ s + CallDuration > calendar[k].startTime)

\* C21: after bookings inside business hours have succeeded, a
\* checkAvailability call for the booked day and agency offers no slot that
\* overlaps a booked interval.
C21_BookedIntervalExcluded == BookedIntervalsExcluded

\* The scope of C21's failure: on a server whose zone is UTC the booked
\* intervals are excluded.
BookedIntervalExcludedInUTC == tz = 0 => BookedIntervalsExcluded

\* The date of the last call names, at the present clock reading, the local
\* day it named when the call was made.
SameDayAsked ==
    startOfDay(parseNaturalDate(call.args.date, now, tz))
        = startOfDay(parseNaturalDate(call.args.date, call.at, tz))
\* Made again now, the last successful checkAvailability call returns the slot
\* list it returned.
SecondCallSame ==
    (call.fn = "checkAvailability" /\ returned.success /\ SameDayAsked)
        => checkAvailability(call.agencyId, call.args, TRUE).availableSlots = returned.availableSlots

\* C22: a checkAvailability call leaves the calendar unchanged, and as long as
\* no booking follows it, the same call made again (the clock may have
\* advanced within the day) returns the same slot list.
C22_CheckAvailabilityIdempotent ==
    [][/\ (call'.fn = "checkAvailability" /\ nCalls' # nCalls) => calendar' = calendar
       /\ SecondCallSame']_vars

\* C22 witness: a successful checkAvailability call over a calendar with a
\* booking, slots returned, and the clock advanced since.
C22_Witness ==
    /\ call.fn = "checkAvailability" /\ returned.success
    /\ returned.availableSlots # <<>>
    /\ Len(calendar) > 0
    /\ now > call.at

\* The slots the last getNextAvailableSlot call returned, as the instants the
\* caller is told: the next slot, and the alternatives on its day.
NextSlots ==
    IF call.fn = "getNextAvailableSlot" /\ returned.success
    THEN {returned.dateTime}
            \cup {returned.formattedDate * MinutesPerDay + returned.otherSlots[i] :
                    i \in 1..Len(returned.otherSlots)}
    ELSE {}

\* C23: a slot getNextAvailableSlot returns on the day of the call, as the
\* next slot or as an alternative, starts after the time of the call.
C23_NoPastSlotToday ==
    \A s \in NextSlots : startOfDay(s) = startOfDay(call.at) => s > call.at

\* C23 witness: a call at 10:00 or later in business hours that returned a
\* slot of its own day with alternatives.
C23_Witness ==
    /\ NextSlots # {}
    /\ toLocaleTimeString(call.at) >= 10 * 60
    /\ startOfDay(returned.dateTime) = startOfDay(call.at)
    /\ returned.otherSlots # <<>>

\* The last call asked an agency's availability for "tomorrow" with duration
\* 30 over an empty calendar, and was answered.
TomorrowAsked ==
    /\ call.fn = "checkAvailability" /\ returned.success
    /\ call.args.date.kind = "tomorrow" /\ call.args.duration = 30
    /\ calendar = <<>>
\* The sixteen half hours from 09:00 to 16:30, as times of day.
SixteenHalfHours == [i \in 1..16 |-> 9 * 60 + (i - 1) * 30]

\* C24: with no calendar entries, checkAvailability for "tomorrow" and
\* duration 30 returns the sixteen slots 09:00, 09:30, ..., 16:30, dated
\* the day after the day of the call.
C24_TomorrowSixteenSlots ==
    TomorrowAsked
        => /\ returned.availableSlots = SixteenHalfHours
           /\ returned.date = call.at \div MinutesPerDay + 1

\* The part of C24 that holds in every zone: the sixteen slots are returned
\* and are slots of the day after the call; and in UTC the date is that day.
TomorrowSixteenSlotTimes ==
    TomorrowAsked
        => /\ returned.availableSlots = SixteenHalfHours
           /\ \A i \in 1..Len(returned.slotStarts) :
                 returned.slotStarts[i] \div MinutesPerDay = call.at \div MinutesPerDay + 1
           /\ tz = 0 => returned.date = call.at \div MinutesPerDay + 1

\* The last call resolved "next <day name>"; DaysAhead is how many calendar
\* days after the day of the call the resolved date lies.
NextDayAsked ==
    /\ call.fn = "parseNaturalDate"
    /\ call.args.date.kind = "next" /\ call.args.date.n \in 0..6
DaysAhead == returned.parsed \div MinutesPerDay - call.at \div MinutesPerDay

\* C25: "next <weekday>" resolves to the nearest date after the day of the
\* call that has that weekday, one to seven days ahead: seven when the day of
\* the call has that weekday, five for "next monday" on a Wednesday.
C25_NextWeekdayNearestFuture ==
    NextDayAsked
        => /\ DaysAhead \in 1..7
           /\ getDay(returned.parsed) = call.args.date.n
           /\ call.args.date.n = getDay(call.at) => DaysAhead = 7
           /\ (getDay(call.at) = 3 /\ call.args.date.n = 1) => DaysAhead = 5

\* C25 witness: the weekday of the day of the call was asked for.
C25_Witness ==
    NextDayAsked /\ call.args.date.n = getDay(call.at) /\ DaysAhead = 7

\* The last call was a getNextAvailableSlot call for an agency whose calendar
\* reads succeeded.
ScanAnswered == call.fn = "getNextAvailableSlot" /\ call.agencyId # 0 /\ call.ok
\* The number of days the call may scan, and the offsets of the days it
\* scans: those that are neither a Saturday nor a Sunday.
ScanHorizon ==
    LET asked == IF call.args.daysToSearch = 0 THEN 7 ELSE call.args.daysToSearch
    IN  IF asked < 30 THEN asked ELSE 30
ScannedOffsets ==
    {d \in 0..(ScanHorizon - 1) : getDay(call.at + d * MinutesPerDay) \in 1..5}
\* The free slots of the day d days after the call: the half hours from 09:00
\* to 16:30 at which an appointment of the asked duration overlaps no entry of
\* the agency that is not cancelled and which, on the day of the call, lie
\* after the call.
FreeSlots(d) ==
    LET day == call.at \div MinutesPerDay + d
        duration == IF call.args.duration = 0 THEN 30 ELSE call.args.duration
    IN  {s \in {day * MinutesPerDay + 9 * 60 + 30 * i : i \in 0..15} :
            /\ d = 0 => s > call.at
            /\ \A k \in 1..Len(calendar) :
                  (calendar[k].agencyId = call.agencyId /\ calendar[k].status # "cancelled")
                      => ~(s < calendar[k].endTime /\ s + duration > calendar[k].startTime)}
DaysWithSlots == {d \in ScannedOffsets : FreeSlots(d) # {}}
FirstDayWithSlots == CHOOSE d \in DaysWithSlots : \A e \in DaysWithSlots : d <= e

\* C26: getNextAvailableSlot answers not-found exactly when no weekday among
\* the first min(daysToSearch, 30) days has a free slot; otherwise it returns
\* the earliest free slot of the first such day, and as alternatives the free
\* slots of that day that follow it, in order, up to three.
C26_FirstDayEarliestSlot ==
    ScanAnswered =>
        IF DaysWithSlots = {}
        THEN returned = NoAvailability(ScanHorizon)
        ELSE LET free == FreeSlots(FirstDayWithSlots)
                 day == call.at \div MinutesPerDay + FirstDayWithSlots
                 others == [i \in 1..Len(returned.otherSlots) |->
                               day * MinutesPerDay + returned.otherSlots[i]]
             IN  /\ returned.success
                 /\ returned.formattedDate = day
                 /\ returned.dateTime \in free
                 /\ \A s \in free : returned.dateTime <= s
                 /\ Len(others) = (IF Cardinality(free) > 3 THEN 3 ELSE Cardinality(free) - 1)
                 /\ \A i \in 1..Len(others) :
                       /\ others[i] \in free
                       /\ Cardinality({s \in free : s < others[i]}) = i

\* C26 witness: a call on a Saturday that skipped the weekend and returned
\* Monday's first slot with three alternatives.
C26_Witness ==
    /\ ScanAnswered /\ returned.success
    /\ getDay(call.at) = 6
    /\ returned.formattedDate = call.at \div MinutesPerDay + 2
    /\ Len(returned.otherSlots) = 3

\* C27: a bookAppointment call whose write resolves succeeds and adds its
\* entry, scheduled, to the calendar as it is, whatever the calendar holds:
\* a second booking of an interval succeeds beside the first.
C27_BookingUnconditional ==
    [][(call'.fn = "bookAppointment" /\ nCalls' # nCalls /\ call'.ok)
          => /\ returned'.success
             /\ calendar' = Append(calendar,
                   [agencyId |-> call'.agencyId,
                    startTime |-> call'.args.dateTime,
                    endTime |-> call'.args.dateTime
                                  + (IF call'.args.duration = 0 THEN 30 ELSE call'.args.duration),
                    status |-> "scheduled"])]_vars

\* C27 witness: two bookings of one interval for one agency have succeeded,
\* and the calendar holds two scheduled entries for it.
C27_Witness ==
    /\ call.fn = "bookAppointment" /\ returned.success
    /\ Len(calendar) = 2
    /\ calendar[1] = calendar[2]
    /\ calendar[1].status = "scheduled"

\* The last call asked an agency's availability with a date string that is
\* none of "today", "tomorrow", "next <day name>" or a parseable date, and its
\* calendar read resolved.
UnparsedAsked ==
    /\ call.fn = "checkAvailability" /\ call.agencyId # 0
    /\ \/ call.args.date.kind = "unparseable"
       \/ call.args.date.kind = "next" /\ call.args.date.n \notin 0..6
    /\ returned # Failure

\* C28: a date string that no rule parses, "next <word that is no day name>"
\* included, resolves to the current date: checkAvailability succeeds, with
\* the answer it gives for "today", whose slots are slots of the day of the
\* call.
C28_UnparsedDateIsToday ==
    UnparsedAsked
        => /\ returned.success
           /\ returned = checkAvailability(call.agencyId,
                                           [date |-> [kind |-> "today", n |-> 0],
                                            duration |-> call.args.duration], TRUE)
           /\ \A i \in 1..Len(returned.slotStarts) :
                 startOfDay(returned.slotStarts[i]) = startOfDay(call.at)

\* C28 witness: "next <word that is no day name>" was asked in the morning
\* and slots of the day were returned.
C28_Witness ==
    /\ UnparsedAsked
    /\ call.args.date.kind = "next"
    /\ returned.slotStarts # <<>>
    /\ startOfDay(returned.slotStarts[1]) = startOfDay(call.at)

\* The session.update messages sent in the session, on any AI connection.
Configurations ==
    {m \in UNION {{conns[c].sent[k] : k \in 1..Len(conns[c].sent)} : c \in ConnIds} :
        m.type = "session.update"}

\* C29: every session.update sent declares one audio format for input and
\* output, and all the session.update messages of a session declare the same
\* format.
C29_OneAudioFormat ==
    \A m \in Configurations :
        /\ m.input_audio_format = m.output_audio_format
        /\ \A n \in Configurations : n.input_audio_format = m.input_audio_format

\* C29 witness: a session that has sent its configuration on two AI
\* connections.
C29_Witness ==
    \E c, d \in ConnIds :
        /\ c # d
        /\ \E k \in 1..Len(conns[c].sent) : conns[c].sent[k].type = "session.update"
        /\ \E k \in 1..Len(conns[d].sent) : conns[d].sent[k].type = "session.update"

\* A start handling is suspended at its agent lookup or its conversation
\* creation; a stop or close handling is suspended at its conversation update.
StartInFlight == \E t \in pending : t.kind \in {"start_lookup", "start_create"}
TeardownInFlight == \E t \in pending : t.kind \in {"stop_update", "close_update"}
\* A step of the handling of a stop event or of the caller leg's close; a
\* step of the handling of a start event.
TeardownStep ==
    \/ TwilioStop
    \/ TwilioClose
    \/ \E t \in pending : StopUpdateDone(t)
    \/ \E t \in pending, ok \in BOOLEAN : CloseUpdateDone(t, ok)
StartStep ==
    \/ TwilioStart
    \/ \E t \in pending, agent \in Agents \cup {NoAgent} : StartLookupDone(t, agent)
    \/ \E t \in pending : StartCreateDone(t)

\* C30: no step of a stop or close handling is taken while a start handling
\* is suspended, and no step of a start handling while a stop or close
\* handling is suspended.
C30_OneTransitionInFlight ==
    [][/\ TeardownStep => ~StartInFlight
       /\ StartStep => ~TeardownInFlight]_vars

\* C31: whenever the session has an AI connection, the connection belongs to
\* a resolved agent and conversationId is set; every handler suspended at a
\* transcript write or a tool invocation, every transcript turn and every
\* booking carries a conversation reference.
C31_ConnectionImpliesConversation ==
    /\ Len(conns) > 0 => conversationId # 0
    /\ \A c \in ConnIds : conns[c].agent # NoAgent
    /\ \A t \in pending : t.kind \in {"save", "tool"} => t.conv # 0
    /\ \A k \in 1..Len(msgs) : msgs[k].conv # 0
    /\ \A k \in 1..Len(calendar) : calendar[k].conv # 0

\* C31 witness: a session whose AI connection has had a transcript turn and
\* a booking written.
C31_Witness ==
    /\ Len(conns) > 0
    /\ Len(msgs) > 0
    /\ Len(calendar) > 0

\* The function_call_output items sent on connection c that report a success.
SuccessOutputs(c) ==
    {k \in 1..Len(conns[c].sent) :
        conns[c].sent[k].item = "function_call_output" /\ conns[c].sent[k].val = SuccessResult}

\* C32: a step changes the calendar only by adding one entry at the
\* completion of a book_appointment invocation whose write resolved; every
\* other step, among them the completion of any other tool, of a failed
\* booking and the dispatch of an unknown tool name, leaves every entry as
\* it is.
C32_OnlyBookingCreatesEntries ==
    [][calendar' # calendar
          => /\ \E t \in pending :
                   t.kind = "tool" /\ t.fn = "book_appointment" /\ ToolDone(t, TRUE)
             /\ Len(calendar') = Len(calendar) + 1
             /\ SubSeq(calendar', 1, Len(calendar)) = calendar]_vars

\* C32 witness: two tool invocations have reported success on one
\* connection and the calendar holds one entry: a booking, and a successful
\* invocation of another tool that added nothing.
C32_Witness ==
    /\ Len(calendar) = 1
    /\ \E c \in ConnIds : Cardinality(SuccessOutputs(c)) = 2

\* C33: the slots of a checkAvailability answer are in strictly increasing
\* order of time, as instants and as the times of day returned: none comes
\* twice.
C33_SlotsStrictlyIncreasing ==
    (call.fn = "checkAvailability" /\ returned.success)
        => \A i, j \in 1..Len(returned.slotStarts) :
              i < j => /\ returned.slotStarts[i] < returned.slotStarts[j]
                       /\ returned.availableSlots[i] < returned.availableSlots[j]

\* C33 witness: an answer over a calendar with entries that leaves out some
\* half hours and returns several slots.
C33_Witness ==
    /\ call.fn = "checkAvailability" /\ returned.success
    /\ Len(calendar) > 1
    /\ Len(returned.slotStarts) \in 2..15

\* The caller leg has closed and no handler of a caller-leg event is
\* suspended: no later step marks a conversation completed.
CallerLegSettled ==
    /\ tw = "CLOSED"
    /\ ~\E t \in pending : t.kind \in {"start_lookup", "start_create", "stop_update", "close_update"}

\* C34: once the caller leg has closed and its handlers have run to their
\* end, every conversation record the session opened is marked completed.
C34_ConversationsCompleted ==
    CallerLegSettled => \A k \in 1..Len(convs) : convs[k] = "completed"

\* C35: the turns of the conversation log stand in the order in which their
\* AI events were received (a turn's text is the ordinal of its event).
C35_TurnsInReceiptOrder ==
    \A i, j \in 1..Len(msgs) : i < j => msgs[i].text < msgs[j].text

\* The AI leg is open: openaiWs refers to a connection and it is OPEN.
AiLegOpen == openaiWs # 0 /\ conns[openaiWs].rs = "OPEN"
\* The positions of the messages a step adds to the log of connection c.
AddedAt(c) == (Len(conns[c].sent) + 1)..Len(conns'[c].sent)

\* C36: a media frame handled while the AI leg is not open changes no
\* connection's log, suspends no handler and raises no exception; and an
\* append that enters a log is the frame handled in that very step, so a
\* dropped frame is not forwarded later.
C36_UnopenedMediaDropped ==
    [][/\ (TwilioMedia /\ ~AiLegOpen)
             => /\ \A c \in ConnIds : conns'[c].sent = conns[c].sent
                /\ pending' = pending
                /\ ~crashed'
       /\ \A c \in ConnIds : \A k \in AddedAt(c) :
             conns'[c].sent[k].type = "input_audio_buffer.append"
                 => /\ TwilioMedia /\ AiLegOpen /\ c = openaiWs
                    /\ conns'[c].sent[k] = AudioAppend(nMedia + 1)]_vars

\* C36 witness: two frames arrived, the first was dropped, the AI leg is
\* open and has been sent the second only.
C36_Witness ==
    /\ nMedia = 2
    /\ AiLegOpen
    /\ AppendAt(openaiWs) # {}
    /\ \A k \in AppendAt(openaiWs) : conns[openaiWs].sent[k] = AudioAppend(2)

\* C37: a tool invocation that completes when the connection it answers on
\* is not open raises no uncaught exception and adds nothing to the log of
\* any connection.
C37_LateToolResultDropped ==
    [][\A t \in pending, ok \in BOOLEAN :
          (ToolDone(t, ok) /\ conns[t.ws].rs # "OPEN")
              => /\ ~crashed'
                 /\ \A c \in ConnIds : conns'[c].sent = conns[c].sent]_vars

\* C37 witness: a booking was made by an invocation whose connection had
\* closed in the meantime: the entry is in the calendar, no invocation is
\* pending, no connection was sent a result, and the process runs.
C37_Witness ==
    /\ Len(calendar) > 0
    /\ ~\E t \in pending : t.kind = "tool"
    /\ \A c \in ConnIds :
          /\ conns[c].rs # "OPEN"
          /\ \A k \in 1..Len(conns[c].sent) : conns[c].sent[k].item # "function_call_output"
    /\ ~crashed

\* The realtime client can send: this.ws is set and its socket is OPEN.
ClientCanSend == clientWs # 0 /\ sockets[clientWs].rs = "OPEN"
\* This step is a call of send, sendAudio or commitAudio.
ClientSendingCall ==
    /\ nClientCalls' = nClientCalls + 1
    /\ clientCall'.op \in {"send", "sendAudio", "commitAudio"}
\* The wire logs of the client's sockets are what they were.
ClientLogsUnchanged ==
    /\ Len(sockets') = Len(sockets)
    /\ \A k \in 1..Len(sockets) : sockets'[k].sent = sockets[k].sent

\* C38: OpenAIRealtimeClient never sends on a socket that is not OPEN and no
\* call of send, sendAudio or commitAudio throws; before connect, while
\* connecting and after close these calls change nothing; a close() on a
\* closed client changes nothing; and while this.ws stays null (after close,
\* until connect is called again) no message goes out on any socket.
C38_ClientSendsOnlyWhenOpen ==
    [][/\ ~clientThrew'
       /\ \A k \in 1..Len(sockets) :
             sockets'[k].sent # sockets[k].sent => sockets'[k].rs = "OPEN" /\ k = clientWs
       /\ (ClientSendingCall /\ ~ClientCanSend) => sockets' = sockets /\ ~clientCall'.sent
       /\ (nClientCalls' = nClientCalls + 1 /\ clientCall'.op = "close" /\ clientWs = 0)
             => sockets' = sockets /\ clientWs' = 0
       /\ (clientWs = 0 /\ clientWs' = 0) => ClientLogsUnchanged]_vars

\* Configuration and a message went out, the client was closed, and a
\* commitAudio() after the close sent nothing.
C38_Witness ==
    /\ clientWs = 0
    /\ \E k \in 1..Len(sockets) : Len(sockets[k].sent) >= 2
    /\ clientCall = [op |-> "commitAudio", sent |-> FALSE]
    /\ ~clientThrew

\* The promise of socket k's connect() resolves in this step.
ClientResolves(k) == sockets[k].promise = "pending" /\ sockets'[k].promise = "resolved"

\* Whatever the calls made, the first message on any wire is the
\* configuration, and a socket whose promise rejected has carried nothing.
ConfigurationFirstOnWire ==
    \A k \in 1..Len(sockets) :
        /\ sockets[k].sent # <<>> => sockets[k].sent[1] = ClientSessionUpdate
        /\ sockets[k].promise = "rejected" => sockets[k].sent = <<>>

\* A connect() whose socket is still this.ws when it opens sends the
\* configuration on that socket in the step that resolves its promise.
ConfiguredWhenStillCurrent ==
    [][\A k \in 1..Len(sockets) :
          (ClientResolves(k) /\ clientWs = k) => sockets'[k].sent = <<ClientSessionUpdate>>]_vars

\* C39: connect sends session.update before its promise resolves: the step
\* that resolves the promise of a connect() puts session.update on the wire
\* of its socket, so the first message on any wire is session.update; and a
\* socket that errors before it opens rejects the promise with nothing sent.
C39_ConfiguredBeforeResolved ==
    [][/\ \A k \in 1..Len(sockets) :
             ClientResolves(k) => sockets'[k].sent = <<ClientSessionUpdate>>
       /\ ConfigurationFirstOnWire']_vars


====
